---- MODULE Spec2Model ----
(***************************************************************************)
(* Model of the music-vault plugin (src/src/main.ts, src/src/spotifyAPI.ts) *)
(*                                                                         *)
(* Part I: the OAuth2 PKCE authorization flow, openSpotifyAuthModal.        *)
(* Every call of openSpotifyAuthModal is one "attempt": it opens a         *)
(* BrowserWindow, registers a will-navigate handler on that window and a   *)
(* once-listener on the process-wide ipcMain channel                       *)
(* "access-token-response".  The handler is async: it suspends at          *)
(* `await fetchToken(...)`, and ipcRenderer.send is an asynchronous        *)
(* message to the main process, so requests and messages are in flight     *)
(* between steps.                                                          *)
(***************************************************************************)
EXTENDS Integers, Sequences, FiniteSets, TLC

(***************************************************************************)
(* Bounds                                                                  *)
(***************************************************************************)
MaxAttempts == 2
MaxExchanges == 2

Attempts == 1..MaxAttempts

RECURSIVE SumTo(_, _)
SumTo(f, k) == IF k = 0 THEN 0 ELSE f[k] + SumTo(f, k - 1)

(***************************************************************************)
(* Values                                                                  *)
(***************************************************************************)
\* URLSearchParams.get returns null for a parameter that is not in the query
Null == "<null>"
\* a property that a JSON object does not have reads as undefined
Undefined == "<undefined>"

\* spotifyAPI.ts:7  "obsidian://music-vault-callback", as a sequence of pieces
redirectUri == <<"obsidian:", "//", "music-vault", "-callback">>

\* spotifyAPI.ts:9-15
TokenFields == {"access_token", "expires_in", "token_type", "scope", "refresh_token"}

\* The navigation targets the surface emits: scheme, "//", and the rest of
\* the URL before the query, in pieces, with the values searchParams.get
\* gives for code and error.  event.url is the browser's own serialization
\* of the target, so `new URL(event.url)` parses it without rewriting it.
Url(base, code, error) == [base |-> base, code |-> code, error |-> error]
ExampleBase == <<"https:", "//", "example.com", "/">>
ShortBase == <<"obsidian:", "//", "music-vault">>
CodeValues == {Null, "XYZ"}
ErrorValues == {Null, "", "access_denied"}
Urls ==
  { Url(ExampleBase, "XYZ", Null), Url(ShortBase, "XYZ", "access_denied") }
  \cup { Url(redirectUri, c, e) : c \in CodeValues, e \in ErrorValues }
NoUrl == [base |-> <<>>, code |-> Null, error |-> Null]

\* spotifyAPI.ts:38-43: each call draws a fresh 64-character verifier; the
\* draw of attempt a is written "V<a>"
\* one verifier kept for all the attempts
generateCodeChallenge_Shared(a) == [verifier |-> "V"]

generateCodeChallenge(a) == [verifier |-> "V" \o ToString(a)]

\* the token the endpoint issues for the authorization of attempt req.att
IssuedId(req) == "t" \o ToString(req.att)

\* JSON bodies the token endpoint can answer with
JsonNull == [t |-> "null"]
FullPair(id) ==
  [t |-> "object", access_token |-> id, expires_in |-> "3600",
   token_type |-> "Bearer", scope |-> "user-read-currently-playing",
   refresh_token |-> "r" \o id]
PartialPair(id) == [FullPair(id) EXCEPT !.refresh_token = Undefined]
JsonBodies(req) == {JsonNull, FullPair(IssuedId(req)), PartialPair(IssuedId(req))}
Statuses == {200, 400}
NoResponse == [throws |-> FALSE, status |-> 0, json |-> JsonNull]
\* what `await requestUrl(params)` produces: a response, or a rejection
Responses(req) == [throws : {FALSE}, status : Statuses, json : JsonBodies(req)]
                  \cup {[throws |-> TRUE, status |-> 0, json |-> JsonNull]}

(***************************************************************************)
(* Pure functions                                                          *)
(***************************************************************************)
StartsWith(s, p) == Len(s) >= Len(p) /\ SubSeq(s, 1, Len(p)) = p

\* URL.href: the pieces before the query followed by the query string
QueryPieces(u) ==
  (IF u.code = Null THEN <<>> ELSE <<"code=", u.code>>) \o
  (IF u.error = Null THEN <<>> ELSE <<"error=", u.error>>)
Href(u) == u.base \o (IF QueryPieces(u) = <<>> THEN <<>> ELSE <<"?">> \o QueryPieces(u))

\* the TODO of main.ts:422: compare the protocol only
IsRedirect_ProtocolOnly(u) == Len(Href(u)) >= 1 /\ Href(u)[1] = redirectUri[1]
\* main.ts:421  url.href.startsWith(redirectUri)
IsRedirect(u) == StartsWith(Href(u), redirectUri)

\* JavaScript truthiness of a string-or-null
Truthy(x) == x # Null /\ x # ""

\* main.ts:440  if (error)
HasError(u) == Truthy(u.error)

CodeMissing_Undefined(u) == u.code = Undefined
\* main.ts:446  if (code === null)
CodeMissing(u) == u.code = Null

\* spotifyAPI.ts:61-63
ok(status) == status >= 200 /\ status <= 299

\* spotifyAPI.ts:85-90: the value fetchToken resolves to (JsonNull stands for
\* undefined as well: both are falsy at main.ts:455)
FetchTokenResult(res) == IF ok(res.status) THEN res.json ELSE JsonNull

\* main.ts:455  if (!tokenResponse)
Falsy(json) == json.t = "null"

\* tokenStorage.storeToken / getToken: the store holds the value it was given
StoreToken(store, token) == <<token>>
GetToken(store) == store

(***************************************************************************)
(* State                                                                   *)
(***************************************************************************)
VARIABLES
  authWindow,     \* attempt -> "none" | "open" | "closed" (destroyed by the
                  \* user closing it) | "destroyed" (by authWindow.destroy())
  ipcListeners,   \* attempts whose once-listener is on accessTokenChannel
  inflight,       \* fetchToken calls that have not resolved yet
  channel,        \* messages sent on accessTokenChannel, not yet delivered
  tokenStore,     \* <<>> (absent) or <<token>>
  bailed,         \* attempt -> bail() has run for it
  exchangeCount,  \* attempt -> token requests issued (MaxExchanges in all)
  writes,         \* attempt -> times its completion listener called storeToken
  completions,    \* attempt -> times its onComplete was invoked
  lastEvent,      \* the event handled by the last step
  \* Part II, the frontmatter codec
  cstage,         \* how far the codec has been applied to its inputs
  cdoc,           \* the document given to upsertFrontmatter, as its lines
  csong,          \* the song given to buildSongFrontmatter
  cother,         \* a second song, whose block the patterns are tried on
  cfm,            \* buildSongFrontmatter(csong)
  cout1,          \* upsertFrontmatter(document, cfm)
  cout2,          \* upsertFrontmatter(cout1, cfm)
  cext,           \* what the refresh pattern extracts from cfm
  cloc,           \* what the locate pattern of csong.id matches
  \* Part III, the notes of the songs folder
  vault,          \* the files of the songs folder, in listing order
  calls,          \* the calls of findOrCreateAndOpenSongNote
  refresh,        \* the call of refreshAllSongNotes
  \* Part V, the functions checked on their own
  enrich,         \* a call of enrichSongWithGenres: its song, the genres
                  \* fetched, and its result
  genreFetch,     \* a call of fetchArtistGenres
  command,        \* a command of the plugin, from its invocation to its end
  random,         \* a call of generateRandomString
  ensure,         \* the folders of the vault and a call of ensureFolderExists
  session         \* what the Web API answers for each track, and how many
                  \* runs of refreshAllSongNotes have ended

authVars == <<authWindow, ipcListeners, inflight, channel, tokenStore,
              bailed, exchangeCount, writes, completions, lastEvent>>

codecVars == <<cstage, cdoc, csong, cother, cfm, cout1, cout2, cext, cloc>>

syncVars == <<vault, calls>>

refreshVars == <<refresh>>

utilVars == <<enrich, genreFetch, command, random, ensure, session>>

\* the variables the authorization flow leaves alone
nonAuthVars == <<codecVars, syncVars, refreshVars, utilVars>>

\* the variables the codec leaves alone
nonCodecVars == <<authVars, syncVars, refreshVars, utilVars>>

\* the variables of Parts I to IV
appVars == <<authVars, codecVars, syncVars, refreshVars>>

vars == <<authVars, codecVars, syncVars, refreshVars, utilVars>>

\* the codec has been given nothing
CodecIdle ==
  /\ cstage = "off"
  /\ cdoc = <<>> /\ csong = <<>> /\ cother = <<>> /\ cfm = <<>>
  /\ cout1 = <<>> /\ cout2 = <<>> /\ cext = <<>> /\ cloc = <<>>

\* no call of enrichSongWithGenres has been made
IdleEnrich ==
  [stage |-> "off", given |-> <<>>, song |-> <<>>, index |-> <<>>, out |-> <<>>]

EnrichIdle == enrich = IdleEnrich

\* no call of fetchArtistGenres has been made
IdleGenreFetch ==
  [ pc |-> "off", artistIds |-> <<>>, uniqueIds |-> <<>>, i |-> 0,
    result |-> <<>>, requests |-> <<>>, responses |-> <<>> ]

GenreFetchIdle == genreFetch = IdleGenreFetch

\* no command has been invoked
IdleCommand ==
  [ op |-> "none", pc |-> "off", activeNote |-> <<>>, trackId |-> <<>>,
    effects |-> {}, notices |-> <<>>, settingsOpened |-> FALSE ]

CommandIdle == command = IdleCommand

\* no call of generateRandomString has been made
IdleRandom == [stage |-> "off", length |-> 0, values |-> <<>>, text |-> <<>>]

RandomIdle == random = IdleRandom

\* no call of ensureFolderExists has been made
IdleEnsure ==
  [ pc |-> "off", folderPath |-> <<>>, parts |-> <<>>, k |-> 0,
    existing |-> {}, before |-> {}, created |-> <<>>, earlier |-> "none" ]

EnsureIdle == ensure = IdleEnsure

\* refreshAllSongNotes is not run again
IdleSession ==
  [run |-> 0, token |-> FALSE, remote |-> <<>>, clean |-> TRUE, written |-> 0]

SessionIdle == session = IdleSession

\* the functions of Part V have not been called
UtilIdle ==
  /\ EnrichIdle /\ GenreFetchIdle /\ CommandIdle /\ RandomIdle /\ EnsureIdle
  /\ SessionIdle

\* the variables each function of Part V leaves alone
nonEnrichVars == <<appVars, genreFetch, command, random, ensure, session>>
nonGenreFetchVars == <<appVars, enrich, command, random, ensure, session>>
nonCommandVars == <<appVars, enrich, genreFetch, random, ensure, session>>
nonRandomVars == <<appVars, enrich, genreFetch, command, ensure, session>>
nonEnsureVars == <<appVars, enrich, genreFetch, command, random, session>>

Event(type, a, u, res) == [type |-> type, att |-> a, url |-> u, res |-> res]

\* no authorization attempt has been made
AuthIdle ==
  /\ authWindow = [a \in Attempts |-> "none"]
  /\ ipcListeners = {}
  /\ inflight = {}
  /\ channel = <<>>
  /\ tokenStore = <<>>
  /\ bailed = [a \in Attempts |-> FALSE]
  /\ exchangeCount = [a \in Attempts |-> 0]
  /\ writes = [a \in Attempts |-> 0]
  /\ completions = [a \in Attempts |-> 0]
  /\ lastEvent = Event("init", 0, NoUrl, NoResponse)

\* no call on the songs folder has been made
SyncIdle == vault = <<>> /\ calls = <<>>

RefreshIdle == refresh = <<>>

Init == AuthIdle /\ CodecIdle /\ SyncIdle /\ RefreshIdle /\ UtilIdle

(***************************************************************************)
(* main.ts:393-474  openSpotifyAuthModal                                    *)
(***************************************************************************)
\* main.ts:393-412, 465-473: a new attempt; attempts are numbered in the
\* order of the calls
OpenSpotifyAuthModal(a) ==
  /\ authWindow[a] = "none"
  /\ \A b \in Attempts : b < a => authWindow[b] # "none"
  /\ authWindow' = [authWindow EXCEPT ![a] = "open"]
  /\ ipcListeners' = ipcListeners \cup {a}
  /\ lastEvent' = Event("open", a, NoUrl, NoResponse)
  /\ UNCHANGED <<inflight, channel, tokenStore, bailed, exchangeCount,
                 writes, completions>>
  /\ UNCHANGED nonAuthVars

\* main.ts:431-437  bail: removeAllListeners(accessTokenChannel), destroy
Bail(a) ==
  /\ ipcListeners' = {}
  /\ authWindow' = [authWindow EXCEPT ![a] = IF @ = "open" THEN "destroyed" ELSE @]
  /\ bailed' = [bailed EXCEPT ![a] = TRUE]

\* main.ts:416-452: the will-navigate handler up to `await fetchToken`.
\* The handler stays registered while the window exists; the model stops
\* following new token requests once MaxExchanges have been issued.
WillNavigate(a, u) ==
  /\ authWindow[a] = "open"
  /\ IF ~IsRedirect(u)
       THEN /\ lastEvent' = Event("navigate", a, u, NoResponse)
            /\ UNCHANGED <<authWindow, ipcListeners, bailed, inflight, exchangeCount>>
       ELSE IF HasError(u) \/ CodeMissing(u)
       THEN /\ Bail(a)
            /\ lastEvent' = Event("navigate", a, u, NoResponse)
            /\ UNCHANGED <<inflight, exchangeCount>>
       ELSE /\ SumTo(exchangeCount, MaxAttempts) < MaxExchanges
            /\ inflight' = inflight \cup
                 {[att |-> a, n |-> exchangeCount[a] + 1, code |-> u.code,
                   code_verifier |-> generateCodeChallenge(a).verifier, redirect_uri |-> redirectUri,
                   grant_type |-> "authorization_code"]}
            /\ exchangeCount' = [exchangeCount EXCEPT ![a] = @ + 1]
            /\ lastEvent' = Event("navigate", a, u, NoResponse)
            /\ UNCHANGED <<authWindow, ipcListeners, bailed>>
  /\ UNCHANGED <<channel, tokenStore, writes, completions>>
  /\ UNCHANGED nonAuthVars

\* main.ts:452-461 with spotifyAPI.ts:85-90: the handler resumes when the
\* request settles
FetchTokenSettles(a, n) ==
  \E req \in inflight : \E res \in Responses(req) :
  /\ req.att = a /\ req.n = n
  /\ inflight' = inflight \ {req}
  /\ lastEvent' = Event("settle", req.att, NoUrl, res)
  /\ IF res.throws
       THEN \* the await rejects and the handler ends there
            UNCHANGED <<authWindow, ipcListeners, bailed, channel>>
       ELSE IF Falsy(FetchTokenResult(res))
       THEN /\ Bail(req.att)
            /\ UNCHANGED channel
       ELSE /\ channel' = Append(channel, [from |-> req.att, token |-> FetchTokenResult(res)])
            /\ UNCHANGED <<authWindow, ipcListeners, bailed>>
  /\ UNCHANGED <<tokenStore, exchangeCount, writes, completions>>
  /\ UNCHANGED nonAuthVars

\* main.ts:466-473: the message reaches ipcMain, which runs every listener
\* of the channel and removes it (once).  destroy() on a window the user
\* has already closed either does nothing or raises before onComplete.
IpcDeliver(raising) ==
  /\ channel # <<>>
  /\ raising \subseteq {a \in ipcListeners : authWindow[a] # "open"}
  /\ LET msg == Head(channel) IN
     /\ channel' = Tail(channel)
     /\ tokenStore' = IF ipcListeners = {} THEN tokenStore
                      ELSE StoreToken(tokenStore, msg.token)
     /\ writes' = [a \in Attempts |->
                      IF a \in ipcListeners THEN writes[a] + 1 ELSE writes[a]]
     /\ authWindow' = [a \in Attempts |->
                      IF a \in ipcListeners /\ authWindow[a] = "open"
                      THEN "destroyed" ELSE authWindow[a]]
     /\ completions' = [a \in Attempts |->
                      IF a \in ipcListeners \ raising THEN completions[a] + 1
                      ELSE completions[a]]
     /\ ipcListeners' = {}
     /\ lastEvent' = Event("deliver", msg.from, NoUrl, NoResponse)
  /\ UNCHANGED <<inflight, bailed, exchangeCount>>
  /\ UNCHANGED nonAuthVars

\* main.ts:399-409: the window has no close handler; the user closing it
\* destroys it and nothing else happens
UserCloses(a) ==
  /\ authWindow[a] = "open"
  /\ authWindow' = [authWindow EXCEPT ![a] = "closed"]
  /\ lastEvent' = Event("close", a, NoUrl, NoResponse)
  /\ UNCHANGED <<ipcListeners, inflight, channel, tokenStore, bailed,
                 exchangeCount, writes, completions>>
  /\ UNCHANGED nonAuthVars

Next ==
  \/ \E a \in Attempts : OpenSpotifyAuthModal(a)
  \/ \E a \in Attempts, u \in Urls : WillNavigate(a, u)
  \/ \E a \in Attempts, n \in 1..MaxExchanges : FetchTokenSettles(a, n)
  \/ \E raising \in SUBSET Attempts : IpcDeliver(raising)
  \/ \E a \in Attempts : UserCloses(a)

Spec == Init /\ [][Next]_vars

(***************************************************************************)
(* The states of section 4.4, read off the program's state                 *)
(***************************************************************************)
Pending(a) ==
  \/ \E req \in inflight : req.att = a
  \/ \E i \in 1..Len(channel) : channel[i].from = a

WindowGone(a) == authWindow[a] \in {"closed", "destroyed"}

AttemptState(a) ==
  IF authWindow[a] = "none" THEN "Idle"
  ELSE IF writes[a] > 0 THEN "Committed"
  ELSE IF bailed[a] THEN "Failed"
  ELSE IF authWindow[a] = "closed" THEN "Closed"
  ELSE IF Pending(a) THEN "ExchangingCode"
  ELSE "AwaitingRedirect"

\* an attempt that has not ended
InFlight(a) == AttemptState(a) \in {"AwaitingRedirect", "ExchangingCode"}

\* a token response with every field of TokenResponse
IsTokenPair(j) == j.t = "object" /\ \A f \in TokenFields : j[f] # Undefined

\* the URL of a navigation event begins with the fixed redirect URI
BeginsWithRedirectUri(u) == StartsWith(Href(u), redirectUri)

NavigateStep(a) == lastEvent'.type = "navigate" /\ lastEvent'.att = a
SettleStep(a) == lastEvent'.type = "settle" /\ lastEvent'.att = a
DeliverStep(a) == lastEvent'.type = "deliver" /\ lastEvent'.att = a

\* what a step that ends an attempt in Failed without an exchange leaves
FailsWithoutExchange(a) ==
  /\ bailed'[a]
  /\ authWindow'[a] = "destroyed"
  /\ a \notin ipcListeners'
  /\ exchangeCount' = exchangeCount
  /\ inflight' = inflight
  /\ channel' = channel
  /\ tokenStore' = tokenStore
  /\ writes' = writes
  /\ completions' = completions

(***************************************************************************)
(* Claims                                                                  *)
(***************************************************************************)

\* C1: a navigation event whose URL does not begin with the redirect URI is
\* discarded, whatever query parameters it carries: the attempt keeps its
\* state, no token exchange is issued, the Token Store is not written, the
\* window stays open and no completion callback fires.
C1_NonRedirectDiscarded ==
  [][\A a \in Attempts :
       (NavigateStep(a) /\ ~BeginsWithRedirectUri(lastEvent'.url)) =>
         /\ AttemptState(a)' = AttemptState(a)
         /\ authWindow' = authWindow
         /\ authWindow'[a] = "open"
         /\ ipcListeners' = ipcListeners
         /\ inflight' = inflight
         /\ exchangeCount' = exchangeCount
         /\ channel' = channel
         /\ tokenStore' = tokenStore
         /\ bailed' = bailed
         /\ writes' = writes
         /\ completions' = completions]_vars

\* an attempt awaiting its redirect has just seen a navigation to another
\* URL that carries a code
C1_Witness ==
  /\ lastEvent.type = "navigate"
  /\ ~BeginsWithRedirectUri(lastEvent.url)
  /\ lastEvent.url.code # Null
  /\ AttemptState(lastEvent.att) = "AwaitingRedirect"

\* C2: when the TokenPair that an attempt's exchange returned reaches the
\* main process, and the attempt has not committed before and the user has
\* not closed its window, the attempt commits: the Token Store then returns
\* exactly that pair, the window is destroyed and onComplete has run exactly
\* once.
C2_SuccessCommits ==
  [][\A a \in Attempts :
       ( /\ DeliverStep(a)
         /\ channel # <<>>
         /\ IsTokenPair(Head(channel).token)
         /\ writes[a] = 0
         /\ authWindow[a] # "closed" ) =>
         /\ GetToken(tokenStore') = <<Head(channel).token>>
         /\ AttemptState(a)' = "Committed"
         /\ writes'[a] = 1
         /\ authWindow'[a] = "destroyed"
         /\ completions'[a] = 1]_vars

\* C3: the delivery of attempt A's token invokes no other attempt's
\* callback, closes no other attempt's window and ends no other attempt.
C3_CompletionIsPerAttempt ==
  [][\A a \in Attempts : DeliverStep(a) =>
       \A b \in Attempts \ {a} :
         /\ completions'[b] = completions[b]
         /\ authWindow'[b] = authWindow[b]
         /\ AttemptState(b)' = AttemptState(b)]_vars

\* C4: attempt A ending in Failed leaves the completion listener of every
\* other attempt registered.
C4_FailureKeepsOtherListeners ==
  [][\A a \in Attempts : (bailed'[a] /\ ~bailed[a]) =>
       \A b \in Attempts \ {a} : b \in ipcListeners => b \in ipcListeners']_vars

\* C5: when the token exchange of an attempt yields no TokenPair (a non-2xx
\* response, a request that raises, a body without a JSON value), the
\* attempt ends in Failed: the window is closed, the completion listener is
\* gone without having run, and the Token Store is unchanged.
C5_ExchangeFailureFails ==
  [][\A a \in Attempts :
       ( /\ SettleStep(a)
         /\ \/ lastEvent'.res.throws
            \/ ~(lastEvent'.res.status >= 200 /\ lastEvent'.res.status <= 299)
            \/ lastEvent'.res.json = JsonNull ) =>
         /\ bailed'[a]
         /\ WindowGone(a)'
         /\ a \notin ipcListeners'
         /\ completions'[a] = completions[a]
         /\ tokenStore' = tokenStore]_vars

\* C6: a matching redirect that carries an error parameter, with or without
\* a code, sends the attempt to Failed without a token exchange.
C6_ErrorRedirectFails ==
  [][\A a \in Attempts :
       ( /\ NavigateStep(a)
         /\ BeginsWithRedirectUri(lastEvent'.url)
         /\ lastEvent'.url.error # Null ) => FailsWithoutExchange(a)]_vars

\* C7: a matching redirect that carries neither an error nor a code sends
\* the attempt to Failed without a token exchange: the window is destroyed,
\* no completion callback fires and the Token Store is unchanged.
C7_MissingCodeFails ==
  [][\A a \in Attempts :
       ( /\ NavigateStep(a)
         /\ BeginsWithRedirectUri(lastEvent'.url)
         /\ lastEvent'.url.error = Null
         /\ lastEvent'.url.code = Null ) => FailsWithoutExchange(a)]_vars

\* an attempt has just failed on a redirect without code and error
C7_Witness ==
  /\ lastEvent.type = "navigate"
  /\ BeginsWithRedirectUri(lastEvent.url)
  /\ lastEvent.url.error = Null
  /\ lastEvent.url.code = Null
  /\ AttemptState(lastEvent.att) = "Failed"
  /\ exchangeCount[lastEvent.att] = 0

\* C8: an attempt issues at most one token exchange request and writes the
\* Token Store at most once.
C8_FirstRedirectOnly ==
  \A a \in Attempts : exchangeCount[a] <= 1 /\ writes[a] <= 1

\* C9: every registered listener belongs to an attempt in flight.  The
\* will-navigate handler lives on the window's webContents, so it is
\* registered exactly while the window is open.
NavigationListeners == {a \in Attempts : authWindow[a] = "open"}
C9_NoListenerLeak ==
  \A a \in ipcListeners \cup NavigationListeners : InFlight(a)

\* C10: the Token Store holds no pair or a pair with all five fields.
C10_StoredPairIsComplete ==
  GetToken(tokenStore) = <<>> \/ IsTokenPair(GetToken(tokenStore)[1])

(***************************************************************************)
(* Part II: the frontmatter codec of main.ts (buildSongFrontmatter,         *)
(* upsertFrontmatter, yamlDq) and the two track_id patterns.                *)
(*                                                                         *)
(* A text is a sequence of tokens.  A token is one character ("-", ":",     *)
(* a quote, a newline, a letter or a digit) or a word the patterns never   *)
(* look inside ("track_id", "Song Name", "GB123", ...).                     *)
(***************************************************************************)
NL == "\n"
CR == "\r"
TAB == "\t"
SP == " "
DQ == "\""
SQ == "'"
BS == "\\"
DASH == "-"
COLON == ":"

\* the characters of the alphabet that the class \s matches
Whitespace == {SP, NL, TAB, CR}

\* the characters of the alphabet that the class [a-zA-Z0-9] matches
AlnumChars == {"T", "X", "a", "b", "n", "t", "1", "2"}

\* an optional field: absent, or present with a value
None == <<>>
Some(v) == <<v>>

\* Array.prototype.join
RECURSIVE Join(_, _)
Join(parts, sep) ==
  IF parts = <<>> THEN <<>>
  ELSE IF Len(parts) = 1 THEN parts[1]
  ELSE parts[1] \o sep \o Join(Tail(parts), sep)

\* Array.prototype.filter(Boolean) on an array of strings
RECURSIVE FilterNonEmpty(_)
FilterNonEmpty(list) ==
  IF list = <<>> THEN <<>>
  ELSE (IF Head(list) = <<>> THEN <<>> ELSE <<Head(list)>>) \o FilterNonEmpty(Tail(list))

\* main.ts:611-621  yamlDq, with a newline kept where the source escapes it
RECURSIVE yamlDq_KeepsNewline(_)
yamlDq_KeepsNewline(s) ==
  IF s = <<>> THEN <<>>
  ELSE IF Head(s) = BS THEN <<BS, BS>> \o yamlDq_KeepsNewline(Tail(s))
  ELSE IF Head(s) = DQ THEN <<BS, DQ>> \o yamlDq_KeepsNewline(Tail(s))
  ELSE IF Head(s) = TAB THEN <<BS, "t">> \o yamlDq_KeepsNewline(Tail(s))
  ELSE <<Head(s)>> \o yamlDq_KeepsNewline(Tail(s))

\* main.ts:611-621  yamlDq: backslash, double quote, CRLF, LF, CR and tab
\* become two-character escapes
RECURSIVE yamlDq(_)
yamlDq(s) ==
  IF s = <<>> THEN <<>>
  ELSE IF Head(s) = BS THEN <<BS, BS>> \o yamlDq(Tail(s))
  ELSE IF Head(s) = DQ THEN <<BS, DQ>> \o yamlDq(Tail(s))
  ELSE IF Head(s) = CR /\ Len(s) >= 2 /\ s[2] = NL THEN <<BS, "n">> \o yamlDq(Tail(Tail(s)))
  ELSE IF Head(s) \in {NL, CR} THEN <<BS, "n">> \o yamlDq(Tail(s))
  ELSE IF Head(s) = TAB THEN <<BS, "t">> \o yamlDq(Tail(s))
  ELSE <<Head(s)>> \o yamlDq(Tail(s))

\* JSON.stringify of a string
RECURSIVE JsonEscape(_)
JsonEscape(s) ==
  IF s = <<>> THEN <<>>
  ELSE IF Head(s) = BS THEN <<BS, BS>> \o JsonEscape(Tail(s))
  ELSE IF Head(s) = DQ THEN <<BS, DQ>> \o JsonEscape(Tail(s))
  ELSE IF Head(s) = NL THEN <<BS, "n">> \o JsonEscape(Tail(s))
  ELSE IF Head(s) = CR THEN <<BS, "r">> \o JsonEscape(Tail(s))
  ELSE IF Head(s) = TAB THEN <<BS, "t">> \o JsonEscape(Tail(s))
  ELSE <<Head(s)>> \o JsonEscape(Tail(s))

JsonStringify(s) == <<DQ>> \o JsonEscape(s) \o <<DQ>>

\* main.ts:592-595  `[${list.map(x => JSON.stringify(x)).join(", ")}]`
JsonArray(list) ==
  <<"[">> \o Join([i \in 1..Len(list) |-> JsonStringify(list[i])], <<",", SP>>) \o <<"]">>

\* `${x ?? alt}` for an optional x
OrElse(opt, alt) == IF opt = None THEN alt ELSE opt[1]

\* main.ts:574-582  the lists and album fields the block is built from
ArtistField(song, f) == [i \in 1..Len(song.artists) |-> song.artists[i][f]]
artistsAll(song) == FilterNonEmpty(ArtistField(song, "name"))
artistIdsAll(song) == FilterNonEmpty(ArtistField(song, "id"))
artistLinksAll(song) ==
  FilterNonEmpty([i \in 1..Len(song.artists) |-> OrElse(song.artists[i].link, <<>>)])
albumName(song) == IF song.album = None THEN <<>> ELSE song.album[1].name
releaseDate(song) ==
  IF song.album = None THEN <<>> ELSE OrElse(song.album[1].release_date, <<>>)

\* main.ts:584-600  the lines of the block, in the fixed key order
FrontmatterLines(song) ==
  << <<DASH, DASH, DASH>>,
     <<"Song Name", COLON, SP, DQ>> \o yamlDq(song.name) \o <<DQ>>,
     <<"Song link", COLON, SP, DQ>> \o yamlDq(song.link) \o <<DQ>>,
     <<"track_id", COLON, SP, DQ>> \o song.id \o <<DQ>>,
     <<"isrc", COLON, SP, DQ>> \o OrElse(song.isrc, <<>>) \o <<DQ>>,
     <<"duration_ms", COLON, SP>> \o OrElse(song.duration_ms, <<DQ, DQ>>),
     <<"explicit", COLON, SP>> \o OrElse(song.explicit, <<DQ, DQ>>),
     <<"popularity", COLON, SP>> \o OrElse(song.popularity, <<DQ, DQ>>),
     <<"artists_all", COLON, SP>> \o JsonArray(artistsAll(song)),
     <<"artist_ids_all", COLON, SP>> \o JsonArray(artistIdsAll(song)),
     <<"artist_links_all", COLON, SP>> \o JsonArray(artistLinksAll(song)),
     <<"genres", COLON, SP>> \o JsonArray(OrElse(song.genres, <<>>)),
     <<"Album name", COLON, SP, DQ>> \o yamlDq(albumName(song)) \o <<DQ>>,
     <<"Release date", COLON, SP, DQ>> \o releaseDate(song) \o <<DQ>>,
     <<DASH, DASH, DASH>> >>

\* main.ts:573-601  buildSongFrontmatter
buildSongFrontmatter(song) == Join(FrontmatterLines(song), <<NL>>)

(***************************************************************************)
(* Regular-expression matching on texts, as the JavaScript engine does it  *)
(***************************************************************************)
\* the pattern's literal text stands at position i of s
IsAt(s, i, pat) ==
  /\ i >= 1
  /\ i + Len(pat) - 1 <= Len(s)
  /\ SubSeq(s, i, i + Len(pat) - 1) = pat

\* the length of the longest run of characters of class cls that starts at
\* position i: what a greedy cls* consumes first
RunLength(s, i, cls) ==
  CHOOSE n \in 0..(Len(s) + 1) :
    /\ \A k \in i..(i + n - 1) : k <= Len(s) /\ s[k] \in cls
    /\ (i + n > Len(s) \/ s[i + n] \notin cls)

Dashes == <<DASH, DASH, DASH>>

\* main.ts:605  /^(\s*---\s*\r?\n[\s\S]*?\r?\n---)(\r?\n?)([\s\S]*)$/
\* The position of the last character of group 1, or 0 when there is no
\* match.  \s* before and after the opening --- are greedy: the run after
\* it gives back characters, longest first, until a line break follows and
\* the rest can match; [\s\S]*? is lazy, so the first "\n---" after that
\* line break closes the group.  No text of the alphabet holds a carriage
\* return before a line feed, so \r? matches empty.
BlockEnd(s) ==
  LET p0 == RunLength(s, 1, Whitespace)
      q == p0 + 3
      w == RunLength(s, q + 1, Whitespace)
      Closings(j) == {e \in (q + j + 1)..Len(s) : IsAt(s, e + 1, <<NL>> \o Dashes)}
      Js == {j \in 0..(w - 1) : s[q + j + 1] = NL /\ Closings(j) # {}}
  IN IF ~IsAt(s, p0 + 1, Dashes) \/ Js = {} THEN 0
     ELSE LET j == CHOOSE x \in Js : \A y \in Js : y <= x
              e == CHOOSE x \in Closings(j) : \A y \in Closings(j) : x <= y
          IN e + 4

\* main.ts:603-609  upsertFrontmatter, with a line break put after the block
upsertFrontmatter_ExtraNewline(content, newFrontmatter) ==
  IF BlockEnd(content) = 0 THEN content
  ELSE newFrontmatter \o <<NL>> \o SubSeq(content, BlockEnd(content) + 1, Len(content))

\* main.ts:603-609  upsertFrontmatter: `${newFrontmatter}${sep}${rest}`,
\* where sep and rest together are all that follows group 1
upsertFrontmatter(content, newFrontmatter) ==
  IF BlockEnd(content) = 0 THEN content
  ELSE newFrontmatter \o SubSeq(content, BlockEnd(content) + 1, Len(content))

\* the positions where ^ matches under the m flag
LineStarts(s) == {i \in 1..(Len(s) + 1) : i = 1 \/ s[i - 1] \in {NL, CR}}

\* \s*$ under the m flag, from position k: the run of whitespace reaches
\* the end of the text or holds a line break
EndOfLine(s, k) ==
  \E p \in k..(k + RunLength(s, k, Whitespace)) : p = Len(s) + 1 \/ s[p] \in {NL, CR}

\* ^\s*track_id\s*:\s*  from line start i: the position after the match,
\* or 0
TrackIdKey(s, i) ==
  LET a == i + RunLength(s, i, Whitespace)
      b == a + 1 + RunLength(s, a + 1, Whitespace)
      c == b + 1 + RunLength(s, b + 1, Whitespace)
  IN IF a <= Len(s) /\ s[a] = "track_id" /\ b <= Len(s) /\ s[b] = COLON THEN c ELSE 0

IsQuoteAt(s, k) == k <= Len(s) /\ s[k] \in {DQ, SQ}

\* main.ts:784  /^\s*track_id\s*:\s*["']?([a-zA-Z0-9]+)["']?\s*$/m from
\* line start i: the capture, or None
TrackIdCapture(s, i) ==
  LET c == TrackIdKey(s, i)
      d == IF IsQuoteAt(s, c) THEN c + 1 ELSE c
      n == RunLength(s, d, AlnumChars)
      f == IF IsQuoteAt(s, d + n) THEN d + n + 1 ELSE d + n
  IN IF c # 0 /\ n >= 1 /\ EndOfLine(s, f) THEN Some(SubSeq(s, d, d + n - 1)) ELSE None

\* main.ts:784-785  content.match(...)?.[1]: the capture of the leftmost
\* match
ExtractTrackId(s) ==
  LET hits == {i \in LineStarts(s) : TrackIdCapture(s, i) # None}
  IN IF hits = {} THEN None
     ELSE TrackIdCapture(s, CHOOSE i \in hits : \A k \in hits : i <= k)

\* main.ts:660
\* new RegExp(`^\\s*track_id\\s*:\\s*["']?${song.id}["']?\\s*$`, "m").test(s)
MatchesTrackId(s, id) ==
  \E i \in LineStarts(s) : \E q1 \in {0, 1}, q2 \in {0, 1} :
    LET c == TrackIdKey(s, i) IN
    /\ c # 0
    /\ q1 = 1 => IsQuoteAt(s, c)
    /\ IsAt(s, c + q1, id)
    /\ q2 = 1 => IsQuoteAt(s, c + q1 + Len(id))
    /\ EndOfLine(s, c + q1 + Len(id) + q2)

(***************************************************************************)
(* Inputs of the codec                                                     *)
(***************************************************************************)
MaxDocLines == 5

\* spotifyAPI.ts:174-190  parseSongFromTrack.  A song with every field the
\* API can give, and one with only the fields that have defaults; an
\* artist without id and link is among the artists of the first.
Song(id, name, full) ==
  [ id |-> id,
    name |-> name,
    link |-> IF full THEN <<"https://open.spotify.com/track/">> \o id ELSE <<>>,
    isrc |-> IF full THEN Some(<<"GB123">>) ELSE None,
    duration_ms |-> IF full THEN Some(<<"215000">>) ELSE None,
    explicit |-> IF full THEN Some(<<"false">>) ELSE None,
    popularity |-> IF full THEN Some(<<"57">>) ELSE None,
    artists |-> IF full
                THEN << [id |-> <<"A1">>, name |-> <<"Ann">>, link |-> Some(<<"https://a/A1">>)],
                        [id |-> <<>>, name |-> <<"B", DQ, "b">>, link |-> None] >>
                ELSE <<>>,
    album |-> IF full THEN Some([name |-> <<"Al", TAB, BS>>, release_date |-> Some(<<"2020">>)])
              ELSE None,
    genres |-> IF full THEN Some(<< <<"rock">>, <<"pop">> >>) ELSE None ]

\* spotifyAPI.ts:175  id: item.id ?? "".  Ids of letters and digits, one a
\* prefix and one a substring of another; the empty default; an id with
\* another character.
SongIds == { <<>>, <<"T", "1">>, <<"T", "1", "2">>, <<"X", "T", "1">>, <<"T", "1", DASH, "2">> }

\* spotifyAPI.ts:176  name: item.name ?? "".  Among the names, one that
\* holds a track_id line of its own between two line breaks.
SongNames == { <<>>, <<"Song">>, <<"a", DQ, BS, "b">>,
               <<"a", NL, "track_id", COLON, SP, "T", "1", NL, "b">> }

Songs == {Song(id, name, full) : id \in SongIds, name \in SongNames, full \in BOOLEAN}

\* the lines documents are made of: the delimiter, a longer rule, a blank
\* line, a line of text, the delimiter followed by a space
DocLineKinds == { Dashes, <<DASH, DASH, DASH, DASH>>, <<>>, <<"a">>, <<DASH, DASH, DASH, SP>> }

Docs == UNION { [1..n -> DocLineKinds] : n \in 0..MaxDocLines }

\* a document's text: its lines joined by line breaks
Text(lines) == Join(lines, <<NL>>)

\* the songs whose blocks are upserted
UpsertSongs == { Song(<<"T", "1">>, <<"Song">>, TRUE),
                 Song(<<>>, <<"a", NL, "track_id", COLON, SP, "T", "1", NL, "b">>, FALSE) }

(***************************************************************************)
(* The codec applied to its inputs                                         *)
(***************************************************************************)
CodecInputs(docs, songs, others) ==
  /\ cstage = "input"
  /\ cdoc \in docs /\ csong \in songs /\ cother \in others
  /\ cfm = <<>> /\ cout1 = <<>> /\ cout2 = <<>> /\ cext = <<>> /\ cloc = <<>>

\* main.ts:573-601
SerializeFrontmatter ==
  /\ cstage = "input"
  /\ cstage' = "serialized"
  /\ cfm' = buildSongFrontmatter(csong)
  /\ UNCHANGED <<cdoc, csong, cother, cout1, cout2, cext, cloc>>
  /\ UNCHANGED nonCodecVars

\* main.ts:603-609
UpsertFrontmatter ==
  /\ cstage = "serialized"
  /\ cstage' = "upserted"
  /\ cout1' = upsertFrontmatter(Text(cdoc), cfm)
  /\ UNCHANGED <<cdoc, csong, cother, cfm, cout2, cext, cloc>>
  /\ UNCHANGED nonCodecVars

\* main.ts:603-609, applied to its own result
UpsertFrontmatterAgain ==
  /\ cstage = "upserted"
  /\ cstage' = "upserted2"
  /\ cout2' = upsertFrontmatter(cout1, cfm)
  /\ UNCHANGED <<cdoc, csong, cother, cfm, cout1, cext, cloc>>
  /\ UNCHANGED nonCodecVars

\* main.ts:784-785
ExtractFromBlock ==
  /\ cstage = "serialized"
  /\ cstage' = "extracted"
  /\ cext' = ExtractTrackId(cfm)
  /\ UNCHANGED <<cdoc, csong, cother, cfm, cout1, cout2, cloc>>
  /\ UNCHANGED nonCodecVars

\* main.ts:660, tried on the block of csong and on the block of cother
LocateInBlocks ==
  /\ cstage = "extracted"
  /\ cstage' = "located"
  /\ cloc' = [own |-> MatchesTrackId(cfm, csong.id),
              other |-> MatchesTrackId(buildSongFrontmatter(cother), csong.id)]
  /\ UNCHANGED <<cdoc, csong, cother, cfm, cout1, cout2, cext>>
  /\ UNCHANGED nonCodecVars

InitUpsert == AuthIdle /\ UtilIdle /\ SyncIdle /\ RefreshIdle /\ CodecInputs(Docs, UpsertSongs, {<<>>})

NextUpsert == SerializeFrontmatter \/ UpsertFrontmatter \/ UpsertFrontmatterAgain

SpecUpsert == InitUpsert /\ [][NextUpsert]_vars

InitRoundTrip == AuthIdle /\ UtilIdle /\ SyncIdle /\ RefreshIdle /\ CodecInputs({<<>>}, Songs, Songs)

NextRoundTrip == SerializeFrontmatter \/ ExtractFromBlock \/ LocateInBlocks

SpecRoundTrip == InitRoundTrip /\ [][NextRoundTrip]_vars

(***************************************************************************)
(* Claims about the codec                                                  *)
(***************************************************************************)
\* a document that starts with a frontmatter block: its first line is
\* exactly --- and a later line is exactly ---
WellFormedBlock(lines) ==
  /\ Len(lines) >= 2
  /\ lines[1] = Dashes
  /\ \E k \in 2..Len(lines) : lines[k] = Dashes

\* the closing line of the block: the first line of exactly --- after
\* the opening one
ClosingLine(lines) ==
  CHOOSE k \in 2..Len(lines) :
    lines[k] = Dashes /\ \A i \in 2..(k - 1) : lines[i] # Dashes

\* the text that follows the closing line, line break included
AfterClosing(lines) ==
  IF ClosingLine(lines) = Len(lines) THEN <<>>
  ELSE <<NL>> \o Text(SubSeq(lines, ClosingLine(lines) + 1, Len(lines)))

Upserted == cstage \in {"upserted", "upserted2"}

\* C11: on a document that starts with a well-formed block, the result of
\* upsertFrontmatter is the new block followed by exactly the text that
\* came after the closing --- line.
C11_ReplacesBlockKeepsBody ==
  (Upserted /\ WellFormedBlock(cdoc)) => cout1 = cfm \o AfterClosing(cdoc)

\* C12: a document that does not start with a well-formed block is
\* returned unchanged.
C12_NoBlockUnchanged ==
  (Upserted /\ ~WellFormedBlock(cdoc)) => cout1 = Text(cdoc)

\* C13: upserting the same block a second time changes nothing:
\* upsertFrontmatter(upsertFrontmatter(d, fm), fm) = upsertFrontmatter(d, fm).
C13_UpsertIdempotent ==
  cstage = "upserted2" => cout2 = cout1

\* a second upsert has run on a document whose block the first replaced
C13_Witness ==
  /\ cstage = "upserted2"
  /\ WellFormedBlock(cdoc)
  /\ cout1 # Text(cdoc)
  /\ cout2 = cout1

\* the id is a non-empty string of letters and digits
IsAlnumId(id) == id # <<>> /\ \A i \in 1..Len(id) : id[i] \in AlnumChars

\* the round trip of csong: the refresh pattern extracts its id from its
\* block, the locate pattern of its id matches its block, and does not
\* match the block of a song with another id
RoundTrips ==
  /\ cext = Some(csong.id)
  /\ cloc.own
  /\ cother.id # csong.id => ~cloc.other

\* C14 as stated: the round trip holds for every record.
C14_RoundTripEveryRecord ==
  cstage = "located" => RoundTrips

\* C14: for every record whose trackId is a non-empty string of letters
\* and digits, the refresh pattern extracts exactly that trackId from the
\* serialized block, and the locate pattern built from it matches that
\* block and no block of a record with a different trackId.
C14_RoundTripAlnumId ==
  (cstage = "located" /\ IsAlnumId(csong.id)) => RoundTrips

\* both patterns have been tried for an id that is a prefix of the other
\* song's id, on a block whose name holds a track_id line
C14_Witness ==
  /\ cstage = "located"
  /\ csong.id = <<"T", "1">>
  /\ cother.id = <<"T", "1", "2">>
  /\ \E i \in 1..Len(csong.name) : csong.name[i] = NL
  /\ RoundTrips

(***************************************************************************)
(* Part III: the notes of the songs folder.                                *)
(* findOrCreateAndOpenSongNote (main.ts:648-704) is async: it suspends at  *)
(* every vault.read, vault.modify and leaf.openFile, so calls started by   *)
(* separate commands interleave at those points.                           *)
(***************************************************************************)
MaxFiles == 2
MaxCalls == 2
MaxNameLength == 200

Calls == 1..MaxCalls

\* main.ts:649, 682  `${folder}/` for the configured songs folder
FolderPrefix == <<"Songs", "/">>

\* main.ts:570  the characters /[\\/:*?"<>|]/g removes
ForbiddenInNames == {BS, "/", COLON, "*", "?", DQ, "<", ">", "|"}

\* String.prototype.trim
RECURSIVE Trim(_)
Trim(s) ==
  IF s = <<>> THEN <<>>
  ELSE IF s[1] \in Whitespace THEN Trim(Tail(s))
  ELSE IF s[Len(s)] \in Whitespace THEN Trim(SubSeq(s, 1, Len(s) - 1))
  ELSE s

\* main.ts:569-571  sanitizeFileName
sanitizeFileName(name) ==
  LET kept == SelectSeq(name, LAMBDA ch : ch \notin ForbiddenInNames)
  IN Trim(SubSeq(kept, 1, IF Len(kept) < MaxNameLength THEN Len(kept) ELSE MaxNameLength))

\* main.ts:681  song.name || "Untitled Song"
baseName(song) ==
  sanitizeFileName(IF song.name = <<>> THEN <<"Untitled Song">> ELSE song.name)

\* main.ts:683, 688  `${prefix}${baseName}.md`, `${prefix}${baseName} - ${ix}.md`
NotePath(base, ix) ==
  FolderPrefix \o base \o (IF ix = 1 THEN <<>> ELSE <<SP, DASH, SP, ToString(ix)>>) \o <<".md">>

Paths(files) == {files[k].path : k \in 1..Len(files)}

\* main.ts:685-689  the collision loop, from suffix ix on
RECURSIVE FirstUnusedPath(_, _, _)
FirstUnusedPath(files, base, ix) ==
  IF NotePath(base, ix) \in Paths(files)
  THEN FirstUnusedPath(files, base, ix + 1)
  ELSE NotePath(base, ix)

\* main.ts:679-692  the file vault.create is asked for
NewNote(files, song) ==
  [ path |-> FirstUnusedPath(files, baseName(song), 1),
    content |-> buildSongFrontmatter(song) \o <<NL, NL>> ]

\* vault.read: the content of the file at a path
ContentAt(files, path) ==
  files[CHOOSE k \in 1..Len(files) : files[k].path = path].content

\* vault.modify
WithContent(files, path, content) ==
  [k \in 1..Len(files) |->
     IF files[k].path = path THEN [files[k] EXCEPT !.content = content] ELSE files[k]]

(***************************************************************************)
(* Inputs: the songs a call is made for and the files the folder holds     *)
(***************************************************************************)
TrackIdLine(id) == <<"track_id", COLON, SP, DQ>> \o id \o <<DQ>>

\* two tracks whose notes get the same file name, the id of one a prefix
\* of the other's
SyncSongs == { Song(<<"T", "1">>, <<"Song">>, FALSE),
               Song(<<"T", "1", "2">>, <<SP, "Song", "?">>, FALSE) }

\* a note of track T1 with an older block and a body
NoteOfT1 ==
  [ path |-> FolderPrefix \o <<"x.md">>,
    content |-> Text(<< Dashes, TrackIdLine(<<"T", "1">>), <<"old", COLON, SP, "1">>, Dashes, <<"a">> >>) ]

\* a note of track T12 under the name a new note of "Song" would get
NoteOfT12 ==
  [ path |-> NotePath(<<"Song">>, 1),
    content |-> Text(<< Dashes, TrackIdLine(<<"T", "1", "2">>), Dashes >>) ]

\* a note of track XT1 whose body has a line `track_id: T1`
NoteOfXT1 ==
  [ path |-> FolderPrefix \o <<"y.md">>,
    content |-> Text(<< Dashes, TrackIdLine(<<"X", "T", "1">>), Dashes,
                        <<"see">>, <<"track_id", COLON, SP, "T", "1">> >>) ]

\* a file without frontmatter under the second name of "Song"
PlainNote ==
  [ path |-> NotePath(<<"Song">>, 2),
    content |-> Text(<< <<"a">>, <<"b">> >>) ]

InitialFiles == {NoteOfT1, NoteOfT12, NoteOfXT1, PlainNote}

\* the folder holds up to MaxFiles of these files, in any listing order
Vaults ==
  UNION { { f \in [1..n -> InitialFiles] : \A i, k \in 1..n : i # k => f[i] # f[k] }
          : n \in 0..MaxFiles }

(***************************************************************************)
(* What a document's frontmatter holds                                     *)
(***************************************************************************)
\* the lines of a text
RECURSIVE SplitLines(_)
SplitLines(s) ==
  IF \A k \in 1..Len(s) : s[k] # NL THEN <<s>>
  ELSE LET k == CHOOSE x \in 1..Len(s) : s[x] = NL /\ \A y \in 1..(x - 1) : s[y] # NL
       IN <<SubSeq(s, 1, k - 1)>> \o SplitLines(SubSeq(s, k + 1, Len(s)))

\* the document starts with a frontmatter block one of whose lines is the
\* track_id line of this id
HasTrackIdInFrontmatter(text, id) ==
  LET lines == SplitLines(text) IN
  /\ WellFormedBlock(lines)
  /\ \E k \in 2..(ClosingLine(lines) - 1) : MatchesTrackId(lines[k], id)

(***************************************************************************)
(* main.ts:648-704  findOrCreateAndOpenSongNote                             *)
(***************************************************************************)
nonSyncVars == <<authVars, codecVars, refreshVars, utilVars>>

\* a call that has not been made.  selected, created, wrote, faults,
\* hadMatch and stray record what the call met and did.
IdleCall ==
  [ pc |-> "idle", song |-> Song(<<>>, <<>>, FALSE), files |-> <<>>, i |-> 0,
    updated |-> <<>>, selected |-> None, created |-> None, wrote |-> FALSE,
    faults |-> {}, hadMatch |-> {}, stray |-> FALSE ]

\* main.ts:679-692: no note was found (or the loop was left by a catch),
\* so the note is created under the first unused name.  The loop and the
\* call of vault.create run without suspension.
CreateNote(c, call) ==
  /\ vault' = Append(vault, NewNote(vault, call.song))
  /\ calls' = [calls EXCEPT ![c] =
                 [call EXCEPT !.pc = "done", !.created = Some(NewNote(vault, call.song).path)]]

\* main.ts:657, 673-677: the next file of the listing, or the end of the loop
Continue(c, call) ==
  IF call.i < Len(call.files)
  THEN /\ calls' = [calls EXCEPT ![c] = [call EXCEPT !.pc = "read", !.i = @ + 1]]
       /\ UNCHANGED vault
  ELSE CreateNote(c, call)

\* main.ts:648-657: the call lists the files of the folder; calls are
\* numbered in the order they are made
StartCall(c, song) ==
  /\ calls[c].pc = "idle"
  /\ \A b \in Calls : b < c => calls[b].pc # "idle"
  /\ LET call == [IdleCall EXCEPT
                    !.song = song,
                    !.files = [k \in 1..Len(vault) |-> vault[k].path],
                    !.hadMatch = {q \in Paths(vault) :
                                    HasTrackIdInFrontmatter(ContentAt(vault, q), song.id)}]
     IN IF vault = <<>> THEN CreateNote(c, call)
        ELSE /\ calls' = [calls EXCEPT ![c] = [call EXCEPT !.pc = "read", !.i = 1]]
             /\ UNCHANGED vault
  /\ UNCHANGED nonSyncVars

\* main.ts:659-663: vault.read settles and the pattern is tried
ReadFile(c, throws) ==
  /\ calls[c].pc = "read"
  /\ LET call == calls[c]
         path == call.files[call.i]
         content == ContentAt(vault, path)
         updated == upsertFrontmatter(content, buildSongFrontmatter(call.song))
         found == [call EXCEPT
                     !.selected = Some(path),
                     !.stray = @ \/ ~HasTrackIdInFrontmatter(content, call.song.id)]
     IN IF throws THEN Continue(c, [call EXCEPT !.faults = @ \cup {"read"}])
        ELSE IF ~MatchesTrackId(content, call.song.id) THEN Continue(c, call)
        ELSE IF updated # content
        THEN /\ calls' = [calls EXCEPT ![c] = [found EXCEPT !.pc = "modify", !.updated = updated]]
             /\ UNCHANGED vault
        ELSE /\ calls' = [calls EXCEPT ![c] = [found EXCEPT !.pc = "open"]]
             /\ UNCHANGED vault
  /\ UNCHANGED nonSyncVars

\* main.ts:663: vault.modify settles
ModifyFile(c, throws) ==
  /\ calls[c].pc = "modify"
  /\ LET call == [calls[c] EXCEPT !.updated = <<>>]
     IN IF throws THEN Continue(c, [call EXCEPT !.faults = @ \cup {"write"}])
        ELSE /\ vault' = WithContent(vault, call.files[call.i], calls[c].updated)
             /\ calls' = [calls EXCEPT ![c] = [call EXCEPT !.pc = "open", !.wrote = TRUE]]
  /\ UNCHANGED nonSyncVars

\* main.ts:665-671: leaf.openFile settles; when it rejects, the catch of
\* main.ts:673 takes the call back into the loop
OpenFile(c, throws) ==
  /\ calls[c].pc = "open"
  /\ IF throws THEN Continue(c, [calls[c] EXCEPT !.faults = @ \cup {"open"}])
     ELSE /\ calls' = [calls EXCEPT ![c].pc = "done"]
          /\ UNCHANGED vault
  /\ UNCHANGED nonSyncVars

InitSync ==
  /\ AuthIdle /\ CodecIdle /\ RefreshIdle /\ UtilIdle
  /\ vault \in Vaults
  /\ calls = [c \in Calls |-> IdleCall]

NextSync ==
  \/ \E c \in Calls, song \in SyncSongs : StartCall(c, song)
  \/ \E c \in Calls, throws \in BOOLEAN : ReadFile(c, throws)
  \/ \E c \in Calls, throws \in BOOLEAN : ModifyFile(c, throws)
  \/ \E c \in Calls, throws \in BOOLEAN : OpenFile(c, throws)

SpecSync == InitSync /\ [][NextSync]_vars

(***************************************************************************)
(* Claims about findOrCreateAndOpenSongNote                                *)
(***************************************************************************)
Done(c) == calls[c].pc = "done"

\* the documents that hold the id in their frontmatter
NotesOf(id) == {k \in 1..Len(vault) : HasTrackIdInFrontmatter(vault[k].content, id)}

\* C15: when a document already holds record.trackId in its frontmatter,
\* the call creates no new file and that document afterwards starts with
\* serializeFrontmatter(record), whether opening it succeeds or fails.
\* (Calls in which vault.read or vault.modify failed, or in which the
\* pattern met a document without the id in its frontmatter, are left out.)
C15_ExistingNoteUpdated ==
  \A c \in Calls :
    (Done(c) /\ calls[c].hadMatch # {} /\ calls[c].faults \subseteq {"open"} /\ ~calls[c].stray)
    => /\ calls[c].created = None
       /\ \A q \in calls[c].hadMatch :
            StartsWith(ContentAt(vault, q), buildSongFrontmatter(calls[c].song))

\* C16: when no document holds record.trackId in its frontmatter, the
\* call's only effect on the folder is one new file, under the first
\* unused name of "<name>.md", "<name> - 2.md", ..., holding the block
\* and an empty body; no existing file is modified.
C16_CreatesOneNote ==
  [][ \A c \in Calls :
        (calls[c].pc # "done" /\ calls'[c].pc = "done" /\ calls'[c].hadMatch = {})
        => /\ ~calls'[c].wrote
           /\ vault' = Append(vault, NewNote(vault, calls'[c].song)) ]_vars

\* C17: a call selects a document only if the document's frontmatter
\* block has the track_id line of the call's id.
C17_SelectsByFrontmatterOnly ==
  \A c \in Calls : ~calls[c].stray

\* C18: however calls interleave, each trackId is in the frontmatter of
\* at most one document.  (States in which a vault operation failed or
\* the pattern met a document without the id in its frontmatter are left
\* out.)
C18_OneNotePerTrack ==
  (\A c \in Calls : calls[c].faults = {} /\ ~calls[c].stray)
  => \A song \in SyncSongs : Cardinality(NotesOf(song.id)) <= 1

(***************************************************************************)
(* Part IV: refreshAllSongNotes (main.ts:766-833) with fetchSongById       *)
(* (spotifyAPI.ts:217-236) and enrichSongWithGenres (main.ts:623-639)      *)
(***************************************************************************)
\* the track object of the Web API for an id
TrackItem(id) == [id |-> Some(id), name |-> Some(<<"Song">>), full |-> TRUE]

\* spotifyAPI.ts:172-191  parseSongFromTrack: absent for a null item; id
\* and name default to ""; genres are not set
parseSongFromTrack(item) ==
  IF item = None THEN None
  ELSE Some([Song(OrElse(item[1].id, <<>>), OrElse(item[1].name, <<>>), item[1].full)
               EXCEPT !.genres = None])

\* the outcomes of requestUrl for a track: it rejects, or it resolves with
\* a status and a body
TrackResponses(id) ==
  [throws : {FALSE}, status : Statuses, item : {None, Some(TrackItem(id))}]
  \cup {[throws |-> TRUE, status |-> 0, item |-> None]}

\* spotifyAPI.ts:227-235  fetchSongById once requestUrl has resolved
fetchSongById(res) == IF ok(res.status) THEN parseSongFromTrack(res.item) ELSE None

\* the results of fetchArtistGenres for the artists of TrackItem: the map
\* without the artist, and the map with the artist's genres
GenreMaps == { [a \in {<<"A1">>} |-> None],
               [a \in {<<"A1">>} |-> Some(<< <<"rock">>, <<"pop">>, <<"rock">> >>)] }

\* genreMap.get(artistId) ?? []
GenresOf(genreMap, artistId) ==
  IF artistId \in DOMAIN genreMap THEN OrElse(genreMap[artistId], <<>>) ELSE <<>>

\* main.ts:630-636  the genres of the artists in order, first occurrences only
RECURSIVE Dedup(_)
Dedup(list) ==
  IF list = <<>> THEN <<>>
  ELSE LET front == Dedup(SubSeq(list, 1, Len(list) - 1))
           last == list[Len(list)]
       IN IF \E k \in 1..Len(front) : front[k] = last THEN front ELSE Append(front, last)

RECURSIVE Concat(_)
Concat(lists) == IF lists = <<>> THEN <<>> ELSE Head(lists) \o Concat(Tail(lists))

\* enrichSongWithGenres pushing every genre, seen before or not
enrichSongWithGenres_NoDedup(song, genreMap) ==
  LET artistIds == artistIdsAll(song)
  IN IF artistIds = <<>> THEN song
     ELSE [song EXCEPT !.genres =
             Some(Concat([k \in 1..Len(artistIds) |-> GenresOf(genreMap, artistIds[k])]))]

\* main.ts:623-639  enrichSongWithGenres, given the map fetchArtistGenres returned
enrichSongWithGenres(song, genreMap) ==
  LET artistIds == artistIdsAll(song)
  IN IF artistIds = <<>> THEN song
     ELSE [song EXCEPT !.genres =
             Some(Dedup(Concat([k \in 1..Len(artistIds) |-> GenresOf(genreMap, artistIds[k])])))]

\* a note of track XT1 that already holds the block a refresh would write
UpToDateNote ==
  [ path |-> FolderPrefix \o <<"z.md">>,
    content |-> buildSongFrontmatter(
                  enrichSongWithGenres(parseSongFromTrack(Some(TrackItem(<<"X", "T", "1">>)))[1],
                                       [a \in {<<"A1">>} |-> None]))
                \o <<NL, NL, "b">> ]

RefreshFiles == {NoteOfT1, NoteOfT12, UpToDateNote, PlainNote}

RefreshVaults ==
  UNION { { f \in [1..n -> RefreshFiles] : \A i, k \in 1..n : i # k => f[i] # f[k] }
          : n \in 0..MaxFiles }

nonRefreshVars == <<authVars, codecVars, calls, utilVars>>

\* the call before it is made.  token, unread and events record what the
\* call met: whether a token was stored, the files whose read failed and,
\* for each tracked document in turn, what its fetch and its write did.
IdleRefresh ==
  [ pc |-> "idle", files |-> <<>>, i |-> 0, songFiles |-> <<>>, j |-> 0,
    updated |-> 0, failed |-> 0, pending |-> <<>>, report |-> None,
    token |-> FALSE, unread |-> {}, events |-> <<>> ]

FetchEvent(kind, song) == [fetch |-> kind, song |-> song, write |-> "none"]

\* main.ts:794-799, 803: the end of the collection loop
AfterCollect(r) ==
  IF r.i < Len(r.files) THEN [r EXCEPT !.i = @ + 1]
  ELSE IF r.songFiles = <<>> THEN [r EXCEPT !.pc = "done"]
  ELSE [r EXCEPT !.pc = "fetch", !.j = 1]

\* main.ts:803, 832: the next tracked document, or the final notice with
\* the counts
NextDocument(r) ==
  IF r.j < Len(r.songFiles) THEN [r EXCEPT !.pc = "fetch", !.j = @ + 1]
  ELSE [r EXCEPT !.pc = "done", !.report = Some([updated |-> r.updated, failed |-> r.failed])]

\* a failure that ends the whole call
DocumentFailed_Aborts(r, ev) ==
  [r EXCEPT !.pc = "done", !.events = Append(@, ev)]

\* main.ts:807-810, 821-824: the document counts as failed and the loop goes on
DocumentFailed(r, ev) ==
  NextDocument([r EXCEPT !.failed = @ + 1, !.events = Append(@, ev)])

\* the content is as it was and the document counts as updated
DocumentUnchanged_CountsUpdated(r, ev) ==
  NextDocument([r EXCEPT !.updated = @ + 1, !.events = Append(@, ev)])

\* main.ts:817: the content is as it was; nothing is written or counted
DocumentUnchanged(r, ev) ==
  NextDocument([r EXCEPT !.events = Append(@, ev)])

\* main.ts:818-819: the write went through
DocumentWritten(r, ev) ==
  NextDocument([r EXCEPT !.updated = @ + 1, !.events = Append(@, ev)])

\* main.ts:767-777: the token is looked up and the folder is listed
StartRefresh(hasToken) ==
  /\ refresh.pc = "idle"
  /\ LET r == [refresh EXCEPT !.token = hasToken,
                                !.files = [k \in 1..Len(vault) |-> vault[k].path]]
     IN refresh' = IF ~hasToken THEN [refresh EXCEPT !.pc = "done"]
                   ELSE IF vault = <<>> THEN [r EXCEPT !.pc = "done"]
                   ELSE [r EXCEPT !.pc = "collect", !.i = 1]
  /\ UNCHANGED <<vault, nonRefreshVars>>

\* main.ts:781-792: vault.read of the next file settles
CollectFile(throws) ==
  /\ refresh.pc = "collect"
  /\ LET path == refresh.files[refresh.i]
         content == ContentAt(vault, path)
         match == ExtractTrackId(content)
     IN refresh' =
          IF throws THEN AfterCollect([refresh EXCEPT !.unread = @ \cup {path}])
          ELSE IF match = None THEN AfterCollect(refresh)
          ELSE AfterCollect([refresh EXCEPT !.songFiles =
                 Append(@, [path |-> path, trackId |-> match[1], content |-> content])])
  /\ UNCHANGED <<vault, nonRefreshVars>>

\* the comparison of main.ts:817 taking every content for changed
ContentChanged_Always(updatedContent, content) == TRUE

\* main.ts:817  if (updatedContent !== content)
ContentChanged(updatedContent, content) == updatedContent # content

\* main.ts:805-817: fetchSongById and enrichSongWithGenres settle, the
\* block is built and upserted into the content read while collecting
FetchSongSettles(res, genreMap) ==
  /\ refresh.pc = "fetch"
  /\ LET doc == refresh.songFiles[refresh.j]
         song == fetchSongById(res)
         enriched == enrichSongWithGenres(song[1], genreMap)
         updatedContent == upsertFrontmatter(doc.content, buildSongFrontmatter(enriched))
     IN /\ res \in TrackResponses(doc.trackId)
        /\ refresh' =
             IF res.throws THEN DocumentFailed(refresh, FetchEvent("throws", IdleCall.song))
             ELSE IF song = None THEN DocumentFailed(refresh, FetchEvent("absent", IdleCall.song))
             ELSE IF ~ContentChanged(updatedContent, doc.content)
             THEN DocumentUnchanged(refresh, FetchEvent("ok", enriched))
             ELSE [refresh EXCEPT !.pc = "write", !.pending = updatedContent,
                                  !.events = Append(@, FetchEvent("ok", enriched))]

FetchSong(res, genreMap) ==
  /\ FetchSongSettles(res, genreMap)
  /\ UNCHANGED <<vault, nonRefreshVars>>

\* main.ts:818-824: vault.modify settles
WriteNote(throws) ==
  /\ refresh.pc = "write"
  /\ LET doc == refresh.songFiles[refresh.j]
         r == [refresh EXCEPT !.pending = <<>>,
                              !.events = SubSeq(@, 1, Len(@) - 1)]
         ev == refresh.events[Len(refresh.events)]
     IN IF throws
        THEN /\ refresh' = DocumentFailed(r, [ev EXCEPT !.write = "throws"])
             /\ UNCHANGED vault
        ELSE /\ refresh' = DocumentWritten(r, [ev EXCEPT !.write = "ok"])
             /\ vault' = WithContent(vault, doc.path, refresh.pending)
  /\ UNCHANGED nonRefreshVars

InitRefresh ==
  /\ AuthIdle /\ CodecIdle /\ UtilIdle
  /\ calls = <<>>
  /\ vault \in RefreshVaults
  /\ refresh = IdleRefresh

AllTrackResponses == UNION {TrackResponses(id) : id \in SongIds}

NextRefresh ==
  \/ \E hasToken \in BOOLEAN : StartRefresh(hasToken)
  \/ \E throws \in BOOLEAN : CollectFile(throws)
  \/ \E res \in AllTrackResponses, genreMap \in GenreMaps : FetchSong(res, genreMap)
  \/ \E throws \in BOOLEAN : WriteNote(throws)

SpecRefresh == InitRefresh /\ [][NextRefresh]_vars

(***************************************************************************)
(* Claims about refreshAllSongNotes                                        *)
(***************************************************************************)
Completed == refresh.pc = "done"

\* the documents the call tracks: those it collected
Tracked == 1..Len(refresh.songFiles)

\* the fetch of the document gave no song or threw, or its write threw
FailedDocument(j) ==
  refresh.events[j].fetch \in {"throws", "absent"} \/ refresh.events[j].write = "throws"

\* the content of the document is not what the call read
ChangedDocument(j) ==
  ContentAt(vault, refresh.songFiles[j].path) # refresh.songFiles[j].content

CountsReported == Completed /\ refresh.report # None

\* every file that could be read and has a track_id line was collected,
\* every collected document was processed, and every document whose
\* fetch and write met no failure holds the upserted block
BatchProcessed ==
  /\ {refresh.songFiles[j].path : j \in Tracked}
       = {q \in Paths(vault) \ refresh.unread : ExtractTrackId(ContentAt(vault, q)) # None}
  /\ Len(refresh.events) = Len(refresh.songFiles)
  /\ \A j \in Tracked :
       (refresh.events[j].fetch = "ok" /\ refresh.events[j].write # "throws")
       => ContentAt(vault, refresh.songFiles[j].path)
            = upsertFrontmatter(refresh.songFiles[j].content,
                                buildSongFrontmatter(refresh.events[j].song))

\* the call is at a point from which a step of its own follows: every
\* loop index is inside its list
CanProceed ==
  /\ refresh.pc \in {"idle", "collect", "fetch", "write", "done"}
  /\ refresh.pc = "collect" => (1 <= refresh.i /\ refresh.i <= Len(refresh.files))
  /\ refresh.pc \in {"fetch", "write"} =>
       (1 <= refresh.j /\ refresh.j <= Len(refresh.songFiles))

\* a bound on the awaited operations the call still has before it: a read
\* for each file not yet read, a fetch and a write for each document
\* collected or still to be collected
StepsLeft ==
  LET filesLeft == Len(refresh.files) - refresh.i + 1
      docsLeft == Len(refresh.songFiles) - refresh.j + 1
  IN CASE refresh.pc = "idle" -> 1 + 3 * Len(vault)
       [] refresh.pc = "collect" -> filesLeft + 2 * (Len(refresh.songFiles) + filesLeft)
       [] refresh.pc = "fetch" -> 2 * docsLeft
       [] refresh.pc = "write" -> 2 * docsLeft - 1
       [] OTHER -> 0

\* C19 as stated: with a token stored, the call completes with its counts
\* reported.
C19_AlwaysReportsCounts ==
  (Completed /\ refresh.token) => (BatchProcessed /\ refresh.report # None)

\* C19: a failure at one document never aborts the batch: with a token
\* stored, every other document is still collected, fetched, enriched and
\* upserted, and the counts are reported whenever at least one tracked
\* document was collected; the call always runs to completion: it is never
\* at a point without a next step, and each step leaves fewer steps before
\* it.
C19_BatchNeverAborts ==
  /\ []((Completed /\ refresh.token)
          => (BatchProcessed /\ (refresh.songFiles # <<>> => refresh.report # None)))
  /\ []CanProceed
  /\ [][StepsLeft' < StepsLeft /\ StepsLeft' >= 0]_vars

\* the fetch of the first of two tracked documents threw, the second was
\* fetched and written, and the counts were reported
C19_Witness ==
  /\ CountsReported
  /\ Len(refresh.songFiles) = 2
  /\ refresh.events[1].fetch = "throws"
  /\ refresh.events[2].fetch = "ok" /\ refresh.events[2].write = "ok"

\* C20 as stated: over N tracked documents of which k fail, failedCount is
\* k and updatedCount is N - k.
C20_CountsFailedAndRest ==
  CountsReported =>
    /\ refresh.report[1].failed = Cardinality({j \in Tracked : FailedDocument(j)})
    /\ refresh.report[1].updated =
         Len(refresh.songFiles) - Cardinality({j \in Tracked : FailedDocument(j)})

\* C20: over N tracked documents of which k fail (fetch absent, or a
\* thrown error), failedCount is k and updatedCount is the number of
\* documents whose content the call changed, which is at most N - k.
C20_CountsFailedAndChanged ==
  CountsReported =>
    /\ refresh.report[1].failed = Cardinality({j \in Tracked : FailedDocument(j)})
    /\ refresh.report[1].updated = Cardinality({j \in Tracked : ChangedDocument(j)})
    /\ refresh.report[1].updated + refresh.report[1].failed <= Len(refresh.songFiles)

\* of two tracked documents one failed and the other was already up to
\* date: the counts are 0 updated and 1 failed
C20_Witness ==
  /\ CountsReported
  /\ Len(refresh.songFiles) = 2
  /\ \E j \in Tracked : FailedDocument(j)
  /\ \E j \in Tracked : ~FailedDocument(j) /\ ~ChangedDocument(j)
  /\ refresh.report[1] = [updated |-> 0, failed |-> 1]

(***************************************************************************)
(* refreshAllSongNotes while the user edits notes.  The call suspends at   *)
(* every read, fetch and write (main.ts:784, 806, 812, 818), and the       *)
(* editor saves a note whenever the user types into it.                    *)
(***************************************************************************)
\* the line the user adds to the body of a note
EditedLine == <<"edit">>

IsEdited(content) == IsAt(content, Len(content) - 1, <<NL>> \o EditedLine)

\* the user appends a line to the body of the k-th file of the folder;
\* each file is edited once
UserEdits(k) ==
  /\ k \in 1..Len(vault)
  /\ refresh.pc # "done"
  /\ ~IsEdited(vault[k].content)
  /\ vault' = [vault EXCEPT ![k].content = @ \o <<NL>> \o EditedLine]
  /\ UNCHANGED <<refresh, nonRefreshVars>>

NextRefreshEdited ==
  \/ NextRefresh
  \/ \E k \in 1..(MaxFiles + 1) : UserEdits(k)

SpecRefreshEdited == InitRefresh /\ [][NextRefreshEdited]_vars

\* the step is a write of refreshAllSongNotes that went through
WriteStep == refresh.pc = "write" /\ refresh'.pc # "write" /\ vault' # vault

\* the document the call is at
CurrentPath == refresh.songFiles[refresh.j].path

\* C21: every write of refreshAll keeps the body the document has at the
\* moment of the write: the content written is the new block followed by
\* what follows the block in the content the file holds then.
C21_WriteKeepsCurrentBody ==
  [][ WriteStep =>
        ContentAt(vault', CurrentPath)
          = upsertFrontmatter(ContentAt(vault, CurrentPath),
                              buildSongFrontmatter(refresh.events[Len(refresh.events)].song)) ]_vars

(***************************************************************************)
(* Part V: functions checked on their own                                  *)
(***************************************************************************)
(***************************************************************************)
(* enrichSongWithGenres (main.ts:623-639)                                  *)
(***************************************************************************)
\* the longest list of artists of a song
MaxArtists == 2

\* spotifyAPI.ts:182-186  the artists parseSongFromTrack builds; an artist
\* without an id gets the id ""
ArtistA == [id |-> <<"A">>, name |-> <<"Ann">>, link |-> None]
ArtistB == [id |-> <<"B">>, name |-> <<"Bob">>, link |-> None]
ArtistNoId == [id |-> <<>>, name |-> <<"Cy">>, link |-> None]

EnrichArtists == {ArtistA, ArtistB, ArtistNoId}

\* the songs given to enrichSongWithGenres: songs parsed from a track, with
\* up to MaxArtists artists and no genres yet
EnrichSongs ==
  { [parseSongFromTrack(Some(TrackItem(<<"T", "1">>)))[1] EXCEPT !.artists = artists] :
      artists \in UNION { [1..n -> EnrichArtists] : n \in 0..MaxArtists } }

\* the maps fetchArtistGenres returns: an artist is missing from the map or
\* has a list of genres
EnrichIndexes ==
  { [a \in {<<"A">>, <<"B">>} |-> IF a = <<"A">> THEN ga ELSE gb] :
      ga \in {None, Some(<< <<"rock">>, <<"pop">> >>), Some(<< <<"rock">>, <<"rock">> >>)},
      gb \in {None, Some(<< <<"pop">>, <<"jazz">> >>), Some(<<>>)} }

\* main.ts:623-639  the call: the result is a new object, the song given is
\* left as it was
EnrichSong ==
  /\ enrich.stage = "in"
  /\ enrich' = [enrich EXCEPT !.stage = "done",
                              !.song = enrich.song,
                              !.out = enrichSongWithGenres(enrich.song, enrich.index)]
  /\ UNCHANGED nonEnrichVars

InitEnrich ==
  /\ AuthIdle /\ CodecIdle /\ SyncIdle /\ RefreshIdle
  /\ GenreFetchIdle /\ CommandIdle /\ RandomIdle /\ EnsureIdle /\ SessionIdle
  /\ \E song \in EnrichSongs, index \in EnrichIndexes :
       enrich = [stage |-> "in", given |-> song, song |-> song, index |-> index,
                 out |-> <<>>]

NextEnrich == EnrichSong

SpecEnrich == InitEnrich /\ [][NextEnrich]_vars

\* the genres the index has for the artists of the song, artist by artist
ListedGenres(song, index) ==
  Concat([k \in 1..Len(song.artists) |->
            IF song.artists[k].id \in DOMAIN index
            THEN OrElse(index[song.artists[k].id], <<>>) ELSE <<>>])

\* the list without the elements that occur earlier in it
FirstOccurrences(list) ==
  LET keep == {k \in 1..Len(list) : \A j \in 1..(k - 1) : list[j] # list[k]}
  IN [n \in 1..Cardinality(keep) |->
        list[CHOOSE k \in keep : Cardinality({j \in keep : j < k}) = n - 1]]

OtherFieldsEqual(out, song) ==
  /\ DOMAIN out = DOMAIN song
  /\ \A f \in DOMAIN song \ {"genres"} : out[f] = song[f]

\* C22: the result's genres are the genres the index has for the song's
\* artists, in artist order then genre order, first occurrences only;
\* every other field equals the input's; the input is not mutated.
C22_GenresReplaced ==
  enrich.stage = "done"
  => /\ enrich.out.genres = Some(FirstOccurrences(ListedGenres(enrich.given, enrich.index)))
     /\ OtherFieldsEqual(enrich.out, enrich.given)
     /\ enrich.song = enrich.given

\* C22 (amended): as above for a song with at least one artist id; a song
\* without one is returned as it is, its genres not replaced.
C22_GenresReplacedGivenArtistIds ==
  enrich.stage = "done"
  => /\ artistIdsAll(enrich.given) # <<>>
        => enrich.out.genres
             = Some(FirstOccurrences(ListedGenres(enrich.given, enrich.index)))
     /\ artistIdsAll(enrich.given) = <<>> => enrich.out = enrich.given
     /\ OtherFieldsEqual(enrich.out, enrich.given)
     /\ enrich.song = enrich.given

C22_Witness ==
  /\ enrich.stage = "done"
  /\ enrich.given.artists = <<ArtistA, ArtistB>>
  /\ enrich.index[<<"A">>] = Some(<< <<"rock">>, <<"pop">> >>)
  /\ enrich.index[<<"B">>] = Some(<< <<"pop">>, <<"jazz">> >>)
  /\ enrich.out.genres = Some(<< <<"rock">>, <<"pop">>, <<"jazz">> >>)

(***************************************************************************)
(* fetchArtistGenres (spotifyAPI.ts:273-307).  Artist ids are numbered:    *)
(* 0 is the empty id, k > 0 is the k-th id.                                *)
(***************************************************************************)
\* the most distinct ids given to a call
MaxIds == 120

\* spotifyAPI.ts:284
batchSize == 50

\* the lists of ids given: n ids once each, n ids twice each, and n ids
\* after an empty id
PlainIds(n) == [k \in 1..n |-> k]
DoubledIds(n) == [k \in 1..(2 * n) |-> ((k - 1) % n) + 1]
IdsAfterEmpty(n) == [k \in 1..(n + 1) |-> IF k = 1 THEN 0 ELSE k - 1]

ArtistIdLists ==
  UNION { {PlainIds(n), DoubledIds(n), IdsAfterEmpty(n)} : n \in 0..MaxIds }

\* spotifyAPI.ts:281  [...new Set(artistIds.filter(Boolean))]
UniqueIds(artistIds) ==
  LET filtered == SelectSeq(artistIds, LAMBDA id : id # 0)
      numbered == [k \in 1..Len(filtered) |-> <<k, filtered[k]>>]
      first == SelectSeq(numbered,
                         LAMBDA p : \A j \in 1..(p[1] - 1) : filtered[j] # p[2])
  IN [k \in 1..Len(first) |-> first[k][2]]

\* uniqueIds.slice(i, i + batchSize) taking one id too many
Batch_OneMore(uniqueIds, i) ==
  SubSeq(uniqueIds, i + 1,
         IF i + batchSize + 1 < Len(uniqueIds) THEN i + batchSize + 1 ELSE Len(uniqueIds))

\* spotifyAPI.ts:286  uniqueIds.slice(i, i + batchSize)
Batch(uniqueIds, i) ==
  SubSeq(uniqueIds, i + 1,
         IF i + batchSize < Len(uniqueIds) THEN i + batchSize ELSE Len(uniqueIds))

\* the genres the Web API lists for every artist
ArtistGenres == << <<"rock">> >>

\* the outcomes of requestUrl for a batch: it rejects; it resolves with a
\* status outside 2xx; it resolves with 200 and no artists in the body, with
\* the artists of the batch, or with null in place of the first artist
BatchOutcomes == {"throws", "status400", "noArtists", "artists", "firstNull"}

BatchResponse(batch, outcome) ==
  [ throws |-> outcome = "throws",
    status |-> IF outcome = "throws" THEN 0 ELSE IF outcome = "status400" THEN 400 ELSE 200,
    artists |-> IF outcome \in {"artists", "firstNull"}
                THEN Some([k \in 1..Len(batch) |->
                            IF outcome = "firstNull" /\ k = 1 THEN None
                            ELSE Some([id |-> batch[k], genres |-> ArtistGenres])])
                ELSE None ]

\* spotifyAPI.ts:294-300  the entries result.set adds for a response
EntriesOf(res) ==
  IF ~res.throws /\ ok(res.status) /\ res.artists # None
  THEN {k \in 1..Len(res.artists[1]) :
          res.artists[1][k] # None /\ res.artists[1][k][1].id # 0}
  ELSE {}

SetEntries(result, res) ==
  LET entries == EntriesOf(res)
      ids == {res.artists[1][k][1].id : k \in entries}
  IN [id \in DOMAIN result \cup ids |->
        IF id \in ids
        THEN res.artists[1][CHOOSE k \in entries : res.artists[1][k][1].id = id][1].genres
        ELSE result[id]]

\* the call once a batch has been answered, with a rejection of requestUrl
\* leaving the function
AfterBatch_Rethrows(call, batch, res) ==
  IF res.throws
  THEN [call EXCEPT !.pc = "raised",
                    !.requests = Append(@, batch), !.responses = Append(@, res)]
  ELSE [call EXCEPT !.pc = IF call.i + batchSize < Len(call.uniqueIds) THEN "batch" ELSE "done",
                    !.i = call.i + batchSize,
                    !.result = SetEntries(call.result, res),
                    !.requests = Append(@, batch), !.responses = Append(@, res)]

\* spotifyAPI.ts:285-304  one turn of the loop: the catch logs a rejection
\* and the loop goes on
AfterBatch(call, batch, res) ==
  [call EXCEPT !.pc = IF call.i + batchSize < Len(call.uniqueIds) THEN "batch" ELSE "done",
               !.i = call.i + batchSize,
               !.result = IF res.throws THEN call.result ELSE SetEntries(call.result, res),
               !.requests = Append(@, batch), !.responses = Append(@, res)]

\* spotifyAPI.ts:273-285  the call up to the first request
FetchArtistGenres ==
  /\ genreFetch.pc = "call"
  /\ LET uniqueIds == IF genreFetch.artistIds = <<>> THEN <<>>
                      ELSE UniqueIds(genreFetch.artistIds)
     IN genreFetch' = [genreFetch EXCEPT !.pc = IF uniqueIds = <<>> THEN "done" ELSE "batch",
                                         !.uniqueIds = uniqueIds]
  /\ UNCHANGED nonGenreFetchVars

\* spotifyAPI.ts:285-304  a batch is requested and answered
RequestBatch(outcome) ==
  /\ genreFetch.pc = "batch"
  /\ LET batch == Batch(genreFetch.uniqueIds, genreFetch.i)
     IN genreFetch' = AfterBatch(genreFetch, batch, BatchResponse(batch, outcome))
  /\ UNCHANGED nonGenreFetchVars

InitGenreFetch ==
  /\ AuthIdle /\ CodecIdle /\ SyncIdle /\ RefreshIdle
  /\ EnrichIdle /\ CommandIdle /\ RandomIdle /\ EnsureIdle /\ SessionIdle
  /\ \E artistIds \in ArtistIdLists :
       genreFetch = [IdleGenreFetch EXCEPT !.pc = "call", !.artistIds = artistIds]

NextGenreFetch ==
  \/ FetchArtistGenres
  \/ \E outcome \in BatchOutcomes : RequestBatch(outcome)

SpecGenreFetch == InitGenreFetch /\ [][NextGenreFetch]_vars

\* the distinct non-empty ids of a list
DistinctIds(artistIds) == {artistIds[k] : k \in 1..Len(artistIds)} \ {0}

Returned == genreFetch.pc = "done"

\* C23: a call given n distinct non-empty ids issues ceil(n/50) requests of
\* at most 50 ids each, and every distinct id is in exactly one request,
\* once.
C23_BatchesOfFifty ==
  Returned
  => LET n == Cardinality(DistinctIds(genreFetch.artistIds))
         requests == genreFetch.requests
     IN /\ Len(requests) = (n + 49) \div 50
        /\ \A r \in 1..Len(requests) : Len(requests[r]) <= 50
        /\ \A id \in DistinctIds(genreFetch.artistIds) :
             /\ Cardinality({ r \in 1..Len(requests) :
                                \E k \in 1..Len(requests[r]) : requests[r][k] = id }) = 1
             /\ \A r \in 1..Len(requests) :
                  Cardinality({k \in 1..Len(requests[r]) : requests[r][k] = id}) <= 1

\* 120 distinct ids, each given twice, went out as 50, 50 and 20
C23_Witness ==
  /\ Returned
  /\ genreFetch.artistIds = DoubledIds(120)
  /\ Len(genreFetch.requests) = 3
  /\ Len(genreFetch.requests[1]) = 50
  /\ Len(genreFetch.requests[2]) = 50
  /\ Len(genreFetch.requests[3]) = 20

\* the batch failed: requestUrl rejected or the status is not 2xx
FailedBatch(res) == res.throws \/ ~ok(res.status)

\* C24: a failed batch does not make the call fail; the result has no
\* entry for an id of a failed batch and has the entries of every batch
\* that succeeded, before or after the failed one.
C24_FailedBatchOnlyLosesItsEntries ==
  /\ genreFetch.pc # "raised"
  /\ Returned
     => \A r \in 1..Len(genreFetch.requests) :
          LET batch == genreFetch.requests[r]
              res == genreFetch.responses[r]
          IN /\ FailedBatch(res)
                => \A k \in 1..Len(batch) : batch[k] \notin DOMAIN genreFetch.result
             /\ ~FailedBatch(res) /\ res.artists # None
                => \A k \in 1..Len(res.artists[1]) :
                     res.artists[1][k] # None
                     => /\ res.artists[1][k][1].id \in DOMAIN genreFetch.result
                        /\ genreFetch.result[res.artists[1][k][1].id]
                             = res.artists[1][k][1].genres

\* of three batches the second failed, and the first and the third gave
\* their entries
C24_Witness ==
  /\ Returned
  /\ Len(genreFetch.requests) = 3
  /\ genreFetch.responses[1].artists # None
  /\ genreFetch.responses[2].throws
  /\ genreFetch.responses[3].artists # None
  /\ genreFetch.requests[1][1] \in DOMAIN genreFetch.result
  /\ genreFetch.requests[3][1] \in DOMAIN genreFetch.result
  /\ genreFetch.requests[2][1] \notin DOMAIN genreFetch.result

(***************************************************************************)
(* The commands that need a token: insertSongLink (main.ts:477-500),       *)
(* createSongNote (707-722), openSongNoteFromLink (724-764) and            *)
(* refreshAllSongNotes (766-833), from the invocation to the end, with     *)
(* what each does to the outside: remote requests, reads, writes, new      *)
(* files and folders.                                                      *)
(***************************************************************************)
Operations ==
  {"insertSongLink", "createSongNote", "openSongNoteFromLink", "refreshAllSongNotes"}

TrackUrl == <<"https://open.spotify.com/track/", "T", "1">>

\* workspace.getActiveFile() and the match of the Song link pattern on its
\* content: no active file; a note without the property; a note whose link
\* is no track URL; a note with the link of a track
ActiveNotes ==
  { None,
    Some([songLink |-> None]),
    Some([songLink |-> Some(<<"https://example.com/", "a">>)]),
    Some([songLink |-> Some(<<SP>> \o TrackUrl)]) }

\* main.ts:641-644  url.match(/spotify\.com\/track\/([a-zA-Z0-9]+)/)?.[1]
extractTrackId(url) ==
  LET starts == {k \in 1..(Len(url) - 1) :
                   /\ url[k] = "https://open.spotify.com/track/"
                   /\ url[k + 1] \in AlnumChars}
  IN IF starts = {} THEN None
     ELSE LET k == CHOOSE k \in starts : \A j \in starts : k <= j
          IN Some(SubSeq(url, k + 1, k + RunLength(url, k + 1, AlnumChars)))

\* the token pairs the store can hold
StoredTokens == {None, Some(FullPair("t1"))}

LoginNotice == "Connect Spotify in settings first"

\* the check after getToken, never taking the token for missing
TokenMissing_Never(token) == FALSE

\* main.ts:480, 709, 749, 768  if (token === undefined)
TokenMissing(token) == token = None

Notify(c, text) == [c EXCEPT !.notices = Append(@, text)]

Finish(c) == [c EXCEPT !.pc = "done"]

\* a command is invoked; openSongNoteFromLink first looks at the active
\* file (main.ts:725-729), the others go to getToken
Invoke(op) ==
  /\ command.pc = "ready"
  /\ command' =
       IF op = "openSongNoteFromLink"
       THEN IF command.activeNote = None
            THEN Finish(Notify([command EXCEPT !.op = op], "No active note"))
            ELSE [command EXCEPT !.op = op, !.pc = "read"]
       ELSE [command EXCEPT !.op = op, !.pc = "getToken"]
  /\ UNCHANGED nonCommandVars

\* main.ts:732-745  the active note is read and its Song link is looked for
ReadActiveNote ==
  /\ command.pc = "read"
  /\ LET read == [command EXCEPT !.effects = @ \cup {"read"}]
         linkMatch == command.activeNote[1].songLink
         trackId == IF linkMatch = None THEN None ELSE extractTrackId(Trim(linkMatch[1]))
     IN command' =
          IF linkMatch = None THEN Finish(Notify(read, "No 'Song link' property found"))
          ELSE IF trackId = None THEN Finish(Notify(read, "Invalid Spotify track URL"))
          ELSE [read EXCEPT !.pc = "getToken", !.trackId = trackId[1]]
  /\ UNCHANGED nonCommandVars

\* main.ts:478-484, 708-713, 748-753, 767-772  getToken has resolved
TokenRead ==
  /\ command.pc = "getToken"
  /\ command' =
       IF TokenMissing(GetToken(tokenStore))
       THEN Finish([Notify(command, LoginNotice) EXCEPT !.settingsOpened = TRUE])
       ELSE [command EXCEPT !.pc = "fetch"]
  /\ UNCHANGED nonCommandVars

\* what the first request of a command comes to: requestUrl rejects, the
\* fetch returns no song, or it returns a song
FetchOutcomes == {"throws", "absent", "song"}

\* main.ts:486-499, 715-721, 755-763, 799-826  the request for the song
SongFetched(outcome) ==
  /\ command.pc = "fetch"
  /\ LET asked == [command EXCEPT !.effects = @ \cup {"remote"}]
     IN command' =
          IF outcome = "throws"
          THEN IF command.op = "refreshAllSongNotes"
               THEN Finish(Notify(asked, "Refresh complete")) ELSE Finish(asked)
          ELSE IF outcome = "absent"
          THEN Finish(Notify(asked,
                 IF command.op \in {"insertSongLink", "createSongNote"} THEN "No song playing"
                 ELSE IF command.op = "openSongNoteFromLink"
                      THEN "Could not fetch song from Spotify"
                      ELSE "Refresh complete"))
          ELSE IF command.op = "insertSongLink"
          THEN Finish(Notify([asked EXCEPT !.effects = @ \cup {"editorInsert"}],
                             "Added song link"))
          ELSE [asked EXCEPT !.pc = "sync"]
  /\ UNCHANGED nonCommandVars

\* what the rest of a command does to the vault: refreshAllSongNotes
\* writes a document or not; the others may create the folder, and update
\* a note or create one
SyncEffects(op) ==
  IF op = "refreshAllSongNotes" THEN {{}, {"write"}}
  ELSE { folder \cup note :
           folder \in {{}, {"createFolder"}},
           note \in {{}, {"write"}, {"createFile"}} }

\* main.ts:719-721, 762-763, 812-820  enrichSongWithGenres, then the note
\* is brought up to date
NoteSynced(done) ==
  /\ command.pc = "sync"
  /\ done \in SyncEffects(command.op)
  /\ command' = Finish([command EXCEPT !.effects = @ \cup {"remote"} \cup done])
  /\ UNCHANGED nonCommandVars

InitCommands ==
  /\ authWindow = [a \in Attempts |-> "none"]
  /\ ipcListeners = {} /\ inflight = {} /\ channel = <<>>
  /\ tokenStore \in StoredTokens
  /\ bailed = [a \in Attempts |-> FALSE]
  /\ exchangeCount = [a \in Attempts |-> 0]
  /\ writes = [a \in Attempts |-> 0]
  /\ completions = [a \in Attempts |-> 0]
  /\ lastEvent = Event("init", 0, NoUrl, NoResponse)
  /\ CodecIdle /\ SyncIdle /\ RefreshIdle
  /\ EnrichIdle /\ GenreFetchIdle /\ RandomIdle /\ EnsureIdle /\ SessionIdle
  /\ \E note \in ActiveNotes :
       command = [IdleCommand EXCEPT !.pc = "ready", !.activeNote = note]

NextCommands ==
  \/ \E op \in Operations : Invoke(op)
  \/ ReadActiveNote
  \/ TokenRead
  \/ \E outcome \in FetchOutcomes : SongFetched(outcome)
  \/ \E done \in SUBSET {"createFolder", "write", "createFile"} : NoteSynced(done)

SpecCommands == InitCommands /\ [][NextCommands]_vars

\* the command ended by prompting login
PromptedLogin ==
  /\ command.pc = "done"
  /\ command.notices # <<>>
  /\ command.notices[Len(command.notices)] = LoginNotice
  /\ command.settingsOpened

\* the command made no remote request and changed nothing in the vault
NoOutsideEffect ==
  command.effects \cap {"remote", "write", "editorInsert", "createFile", "createFolder"} = {}

\* C25: with no token in the store, each of the four commands ends by
\* prompting login, and makes no remote request, no document write, no
\* file and no folder.
C25_NoTokenPromptsLogin ==
  GetToken(tokenStore) = None
  => /\ NoOutsideEffect
     /\ command.pc = "done" => PromptedLogin

\* openSongNoteFromLink found the link of a track in the active note
HasTrackLink ==
  /\ command.activeNote # None
  /\ command.activeNote[1].songLink # None
  /\ extractTrackId(Trim(command.activeNote[1].songLink[1])) # None

\* C25 (amended): as above, except that openSongNoteFromLink asks for the
\* token only once the active note gave it the link of a track: without
\* one it ends with its own notice, no login prompt.
C25_NoTokenNoOutsideEffect ==
  GetToken(tokenStore) = None
  => /\ NoOutsideEffect
     /\ command.pc = "done"
        => IF command.op = "openSongNoteFromLink" /\ ~HasTrackLink
           THEN ~PromptedLogin /\ Len(command.notices) = 1
           ELSE PromptedLogin

C25_Witness ==
  /\ GetToken(tokenStore) = None
  /\ command.op = "openSongNoteFromLink"
  /\ command.trackId = <<"T", "1">>
  /\ PromptedLogin

(***************************************************************************)
(* generateRandomString (spotifyAPI.ts:18-23)                              *)
(***************************************************************************)
\* the longest string asked for
MaxRandomLength == 1

\* spotifyAPI.ts:19-20
possible ==
  <<"A", "B", "C", "D", "E", "F", "G", "H", "I", "J", "K", "L", "M",
     "N", "O", "P", "Q", "R", "S", "T", "U", "V", "W", "X", "Y", "Z",
     "a", "b", "c", "d", "e", "f", "g", "h", "i", "j", "k", "l", "m",
     "n", "o", "p", "q", "r", "s", "t", "u", "v", "w", "x", "y", "z",
     "0", "1", "2", "3", "4", "5", "6", "7", "8", "9" >>

\* spotifyAPI.ts:21  the values of an element of a Uint8Array: 0..ByteRange-1
ByteRange == 256

\* spotifyAPI.ts:22  possible[x % possible.length]
CharOf(x) == possible[(x % Len(possible)) + 1]

\* spotifyAPI.ts:21  crypto.getRandomValues fills one more element
GetRandomValue(x) ==
  /\ random.stage = "values"
  /\ Len(random.values) < random.length
  /\ random' = [random EXCEPT !.values = Append(@, x)]
  /\ UNCHANGED nonRandomVars

\* spotifyAPI.ts:22  values.reduce((acc, x) => acc + possible[...], "")
ReduceValues ==
  /\ random.stage = "values"
  /\ Len(random.values) = random.length
  /\ random' = [random EXCEPT !.stage = "done",
                              !.text = [k \in 1..Len(random.values) |->
                                          CharOf(random.values[k])]]
  /\ UNCHANGED nonRandomVars

InitRandom ==
  /\ AuthIdle /\ CodecIdle /\ SyncIdle /\ RefreshIdle
  /\ EnrichIdle /\ GenreFetchIdle /\ CommandIdle /\ EnsureIdle /\ SessionIdle
  /\ \E length \in 0..MaxRandomLength :
       random = [IdleRandom EXCEPT !.stage = "values", !.length = length]

NextRandom ==
  \/ \E x \in 0..(ByteRange - 1) : GetRandomValue(x)
  \/ ReduceValues

SpecRandom == InitRandom /\ [][NextRandom]_vars

\* the byte values that give the character
ProducedBy(c) == {x \in 0..(ByteRange - 1) : CharOf(x) = c}

\* C26: every character of the alphabet is produced by the same number of
\* byte values: the characters of a generated string have as many byte
\* values as any character of the alphabet.
C26_UniformOverAlphabet ==
  random.stage = "done"
  => \A k \in 1..Len(random.text), j \in 1..Len(possible) :
       Cardinality(ProducedBy(random.text[k])) = Cardinality(ProducedBy(possible[j]))

(***************************************************************************)
(* findOrCreateAndOpenSongNote (main.ts:648-704) on a folder in which two  *)
(* notes hold the same track_id                                            *)
(***************************************************************************)
\* a second note of track T1, with an older block and another body
SecondNoteOfT1 ==
  [ path |-> FolderPrefix \o <<"w.md">>,
    content |-> Text(<< Dashes, TrackIdLine(<<"T", "1">>), <<"old", COLON, SP, "2">>, Dashes, <<"b">> >>) ]

DuplicateFiles == {NoteOfT1, SecondNoteOfT1, PlainNote}

\* the folder holds up to MaxFiles of these files, in any listing order
DuplicateVaults ==
  UNION { { f \in [1..n -> DuplicateFiles] : \A i, k \in 1..n : i # k => f[i] # f[k] }
          : n \in 0..MaxFiles }

InitSyncDuplicates ==
  /\ AuthIdle /\ CodecIdle /\ RefreshIdle /\ UtilIdle
  /\ vault \in DuplicateVaults
  /\ calls = [c \in Calls |-> IdleCall]

SpecSyncDuplicates == InitSyncDuplicates /\ [][NextSync]_vars

\* the first file of the call's listing that held the call's track_id in
\* its frontmatter when the call was made
FirstMatch(call) ==
  call.files[CHOOSE k \in 1..Len(call.files) :
               /\ call.files[k] \in call.hadMatch
               /\ \A j \in 1..(k - 1) : call.files[j] \notin call.hadMatch]

\* the step is a write or an opening by the call that went through
Touches(c) ==
  /\ calls[c].pc \in {"modify", "open"}
  /\ calls'[c].pc \in {"open", "done"}
  /\ calls'[c].pc # calls[c].pc
  /\ calls'[c].faults = calls[c].faults

\* C27: when several documents hold the call's track_id, the call writes
\* and opens only the first of them in listing order, and a write leaves
\* the content of every other document as it was.
C27_OnlyFirstMatchTouched ==
  [][ \A c \in Calls :
        (Cardinality(calls[c].hadMatch) >= 2 /\ Touches(c))
        => /\ calls[c].files[calls[c].i] = FirstMatch(calls[c])
           /\ \A q \in Paths(vault) \ {FirstMatch(calls[c])} :
                ContentAt(vault', q) = ContentAt(vault, q) ]_vars

MaxRunFiles == 1

\* the folder holds up to MaxRunFiles of the files, in any listing order
TwiceVaults ==
  UNION { { f \in [1..n -> RefreshFiles] : \A i, k \in 1..n : i # k => f[i] # f[k] }
          : n \in 0..MaxRunFiles }

Answer(res, genreMap) == [res |-> res, genreMap |-> genreMap]

\* main.ts:805-817: as FetchSong, with the answer for a track kept: a
\* track that was asked for before is answered as before
FetchSongAsBefore(res, genreMap) ==
  /\ FetchSongSettles(res, genreMap)
  /\ LET id == refresh.songFiles[refresh.j].trackId
     IN /\ id \in DOMAIN session.remote => session.remote[id] = Answer(res, genreMap)
        /\ session' = [session EXCEPT !.remote =
                         [t \in DOMAIN session.remote \cup {id} |->
                            IF t = id THEN Answer(res, genreMap) ELSE session.remote[t]]]
  /\ UNCHANGED <<vault, authVars, codecVars, calls, enrich, genreFetch, command,
                 random, ensure>>

\* main.ts:767-777: as StartRefresh; the token store is as it was when
\* the first run looked the token up
StartRefreshSameToken(hasToken) ==
  /\ session.run = 2 => hasToken = session.token
  /\ StartRefresh(hasToken)

\* the first run has ended and the command is invoked again
RefreshAgain ==
  /\ session.run = 1
  /\ refresh.pc = "done"
  /\ session' = [session EXCEPT
                   !.run = 2,
                   !.token = refresh.token,
                   !.clean = /\ refresh.unread = {}
                             /\ \A k \in 1..Len(refresh.events) :
                                  refresh.events[k].write # "throws",
                   !.written = refresh.updated]
  /\ refresh' = IdleRefresh
  /\ UNCHANGED <<vault, authVars, codecVars, calls, enrich, genreFetch, command,
                 random, ensure>>

InitRefreshTwice ==
  /\ AuthIdle /\ CodecIdle
  /\ EnrichIdle /\ GenreFetchIdle /\ CommandIdle /\ RandomIdle /\ EnsureIdle
  /\ session = [IdleSession EXCEPT !.run = 1]
  /\ calls = <<>>
  /\ vault \in TwiceVaults
  /\ refresh = IdleRefresh

NextRefreshTwice ==
  \/ \E hasToken \in BOOLEAN : StartRefreshSameToken(hasToken)
  \/ \E throws \in BOOLEAN : CollectFile(throws)
  \/ \E res \in AllTrackResponses, genreMap \in GenreMaps : FetchSongAsBefore(res, genreMap)
  \/ \E throws \in BOOLEAN : WriteNote(throws)
  \/ RefreshAgain

SpecRefreshTwice == InitRefreshTwice /\ [][NextRefreshTwice]_vars

\* the step neither writes a document nor gets to write one
NoWrite == vault' = vault /\ refresh'.pc # "write"

MaxPathLength == 4

SLASH == "/"

\* the folder settings: texts of slashes, blanks and the letters a and b
FolderPaths ==
  UNION { [1..n -> {SLASH, SP, "a", "b"}] : n \in 0..MaxPathLength }

\* what the vault holds before the first call: nothing, a, a with a/b, or b
ExistingPaths ==
  { {}, {<<"a">>}, {<<"a">>, <<"a", SLASH, "b">>}, {<<"b">>} }

\* main.ts:554  .replace(/^\/+|\/+$/g, "")
StripSlashes(s) ==
  LET lead == RunLength(s, 1, {SLASH})
      rest == SubSeq(s, lead + 1, Len(s))
      trail == CHOOSE n \in 0..Len(rest) :
                 /\ \A k \in (Len(rest) - n + 1)..Len(rest) : rest[k] = SLASH
                 /\ (n = Len(rest) \/ rest[Len(rest) - n] # SLASH)
  IN SubSeq(rest, 1, Len(rest) - trail)

\* main.ts:557  folder.split("/")
RECURSIVE SplitAtSlash(_)
SplitAtSlash(s) ==
  IF \A k \in 1..Len(s) : s[k] # SLASH THEN <<s>>
  ELSE LET k == CHOOSE x \in 1..Len(s) : s[x] = SLASH /\ \A y \in 1..(x - 1) : s[y] # SLASH
       IN <<SubSeq(s, 1, k - 1)>> \o SplitAtSlash(SubSeq(s, k + 1, Len(s)))

\* main.ts:560  cur = cur ? `${cur}/${p}` : p, after k parts
CurrentFolder(parts, k) == Join(SubSeq(parts, 1, k), <<SLASH>>)

\* the loop of main.ts:559 after the k-th part
NextPart(e) ==
  IF e.k < Len(e.parts) THEN [e EXCEPT !.k = @ + 1] ELSE [e EXCEPT !.pc = "done"]

\* the check of main.ts:561 left out
Missing_Always(existing, cur) == TRUE

\* main.ts:561  !this.app.vault.getAbstractFileByPath(cur)
Missing(existing, cur) == cur \notin existing

\* main.ts:553-558  the call up to the loop
EnsureFolderExists ==
  /\ ensure.pc = "call"
  /\ LET folder == Trim(StripSlashes(ensure.folderPath))
         parts == IF folder = <<>> THEN <<>> ELSE FilterNonEmpty(SplitAtSlash(folder))
     IN ensure' = IF parts = <<>> THEN [ensure EXCEPT !.pc = "done"]
                  ELSE [ensure EXCEPT !.pc = "loop", !.parts = parts, !.k = 1]
  /\ UNCHANGED nonEnsureVars

\* main.ts:559-564  one turn of the loop: a part that exists is passed
\* over; for a missing one createFolder is called and settles
VisitPart(throws) ==
  /\ ensure.pc = "loop"
  /\ LET cur == CurrentFolder(ensure.parts, ensure.k)
         asked == [ensure EXCEPT !.created = Append(@, cur)]
     IN ensure' =
          IF ~Missing(ensure.existing, cur) THEN NextPart(ensure)
          ELSE IF throws THEN [asked EXCEPT !.pc = "raised"]
          ELSE NextPart([asked EXCEPT !.existing = @ \cup {cur}])
  /\ UNCHANGED nonEnsureVars

\* the call has ended and ensureFolderExists is called with the same folder
EnsureAgain ==
  /\ ensure.pc \in {"done", "raised"}
  /\ ensure.earlier = "none"
  /\ ensure' = [ensure EXCEPT !.pc = "call", !.parts = <<>>, !.k = 0,
                              !.before = ensure.existing, !.created = <<>>,
                              !.earlier = IF ensure.pc = "done" THEN "returned" ELSE "raised"]
  /\ UNCHANGED nonEnsureVars

InitEnsure ==
  /\ AuthIdle /\ CodecIdle /\ SyncIdle /\ RefreshIdle
  /\ EnrichIdle /\ GenreFetchIdle /\ CommandIdle /\ RandomIdle /\ SessionIdle
  /\ \E folderPath \in FolderPaths, existing \in ExistingPaths :
       ensure = [IdleEnsure EXCEPT !.pc = "call", !.folderPath = folderPath,
                                   !.existing = existing, !.before = existing]

NextEnsure ==
  \/ EnsureFolderExists
  \/ \E throws \in BOOLEAN : VisitPart(throws)
  \/ EnsureAgain

SpecEnsure == InitEnsure /\ [][NextEnsure]_vars

\* the path of each segment of the target folder, parent before child
Segments(parts) == [k \in 1..Len(parts) |-> CurrentFolder(parts, k)]

\* the segments that the vault did not hold when the call was made
MissingSegments(parts, before) == SelectSeq(Segments(parts), LAMBDA p : p \notin before)

IsPrefix(s, t) == Len(s) <= Len(t) /\ SubSeq(t, 1, Len(s)) = s

\* the folder setting is empty: no text, blanks only, or slashes only
EmptyFolder(folderPath) ==
  \/ \A k \in 1..Len(folderPath) : folderPath[k] \in Whitespace
  \/ \A k \in 1..Len(folderPath) : folderPath[k] = SLASH

\* C30: a call asks for the creation of the segments of the folder that
\* the vault does not hold, parent before child, and of nothing else: the
\* creates issued are always the first of the missing segments, and all of
\* them once the call has returned; a second call after a call that
\* returned issues none, and an empty folder setting issues none.
C30_CreatesMissingSegmentsInOrder ==
  /\ ensure.pc \in {"loop", "raised"}
     => IsPrefix(ensure.created, MissingSegments(ensure.parts, ensure.before))
  /\ ensure.pc = "done"
     => ensure.created = MissingSegments(ensure.parts, ensure.before)
  /\ ensure.earlier = "returned" => ensure.created = <<>>
  /\ EmptyFolder(ensure.folderPath) => ensure.created = <<>>

\* the vault held b; the first call of "/b/a" created b/a only, and the
\* second call has returned without a create
C30_Witness ==
  /\ ensure.folderPath = <<SLASH, "b", SLASH, "a">>
  /\ ensure.before = {<<"b">>, <<"b", SLASH, "a">>}
  /\ ensure.existing = ensure.before
  /\ ensure.earlier = "returned"
  /\ ensure.pc = "done"
  /\ ensure.created = <<>>
====
